---------------------------- MODULE Spec2Model ----------------------------
(***************************************************************************)
(* Admission and content-policy pipeline of the ComfyUI connector plugin   *)
(* (src/main.py): access check, cooldown, sensitive-word matcher and the   *)
(* handlers that reach the image backend (paint command, LLM tool,         *)
(* multi-image batch).                                                     *)
(*                                                                         *)
(* Texts (prompts, lexicon terms, narrative text) are sequences of         *)
(* one-character strings.  Time is counted in ticks, TicksPerSecond ticks  *)
(* to the second, so that the truncation int(...) of the remaining time    *)
(* is visible.  Handlers are coroutines: an action is the code that runs   *)
(* between two suspension points (await / yield).                          *)
(***************************************************************************)
EXTENDS Integers, Sequences, FiniteSets, TLC

\* ------------------------------------------------------------------ bounds
\* Clock resolution: ticks per second of time.time().
TicksPerSecond == 2
\* control.cooldown_seconds of the configuration, in seconds.
cooldown_seconds == 1
\* The clock runs from 0 to MaxTime ticks: MaxPeriods cooldown periods.
MaxPeriods == 2
MaxTime == MaxPeriods * cooldown_seconds * TicksPerSecond

\* In-flight events (one handler invocation each).
EventIds == {"e1", "e2"}

\* ------------------------------------------------------------ identifiers
\* Senders: "adm" is in control.admin_ids, "usr" is not.
Users == {"adm", "usr"}
admin_user_ids == {"adm"}
\* Groups: "g1" is in control.whitelist_group_ids, "g2" is not.
whitelist_group_ids == {"g1"}

\* A scope: a private chat, a group with its id, or a group message whose
\* group id cannot be obtained (gid = "").
Private == [group |-> FALSE, gid |-> ""]
Group(g) == [group |-> TRUE, gid |-> g]
Scopes == {Private, Group("g1"), Group("g2"), Group("")}

is_group_message(scope) == scope.group
get_group_id(scope) == IF is_group_message(scope) THEN scope.gid ELSE ""

\* ------------------------------------------------------------------ texts
\* str.lower() on the characters texts are made of.
Lower(c) ==
  CASE c = "A" -> "a"
    [] c = "B" -> "b"
    [] c = "E" -> "e"
    [] c = "F" -> "f"
    [] c = "I" -> "i"
    [] c = "L" -> "l"
    [] c = "T" -> "t"
    [] OTHER -> c

\* [A-Za-z0-9_] of the word pattern's lookarounds.
WordChars == {"a", "b", "c", "d", "e", "f", "g", "h", "i", "l", "n", "o",
              "t", "u", "x", "y", "A", "B", "E", "F", "I", "L", "T", "1", "_"}
\* Characters with ord(ch) >= 128.
NonAsciiChars == {"U+732B"}

\* The ASCII test letting every term through.
is_ascii_term_all(s) == Len(s) >= 0

is_ascii_term(s) == \A k \in 1..Len(s) : s[k] \notin NonAsciiChars

\* The tier table with the full tier built from its own categories only,
\* the lite tier's category left out.
policies_full_without_lite ==
  [none |-> {},
   lite |-> {"legacy_lite"},
   full |-> {"minors", "sexual_violence",
             "bestiality_incest_necrophilia", "violence_gore",
             "scat_urine_vomit", "self_harm", "sexual", "nudity", "fetish"}]

\* self.policies: tier -> activated categories.
policies ==
  [none |-> {},
   lite |-> {"legacy_lite"},
   full |-> {"legacy_lite", "minors", "sexual_violence",
             "bestiality_incest_necrophilia", "violence_gore",
             "scat_urine_vomit", "self_harm", "sexual", "nudity", "fetish"}]
Tiers == DOMAIN policies

\* The loaded sensitive_words.json: category -> ordered list of terms.
lexicon ==
  [legacy_lite |-> << <<"a", "b">>, <<"c", " ", "d">>, <<"U+732B">> >>,
   sexual      |-> << <<"e">>, <<"f">>, <<"g">>, <<"h">>, <<"i">>, <<"a", "b">> >>,
   full        |-> << <<"x">> >>]

\* self.lexicon.get(cat, []), l the loaded lexicon
LexiconGet(l, cat) == IF cat \in DOMAIN l THEN l[cat] ELSE << >>


\* ------------------------------------------------------- policy compiler
\* The order in which "for cat in cats" visits the categories of a tier (a
\* Python set).  No two terms of the lexicon above can match at the same
\* position of a text, so the matcher's result does not depend on it.
CatOrder == <<"legacy_lite", "minors", "sexual_violence",
              "bestiality_incest_necrophilia", "violence_gore",
              "scat_urine_vomit", "self_harm", "sexual", "nudity", "fetish">>

HasSpace(t) == \E k \in 1..Len(t) : t[k] = " "

\* The terms of the categories cats, visited in the order given.
RECURSIVE CatTerms(_, _, _)
CatTerms(l, order, cats) ==
  IF order = << >> THEN << >>
  ELSE (IF Head(order) \in cats THEN LexiconGet(l, Head(order)) ELSE << >>)
       \o CatTerms(l, Tail(order), cats)

\* list(dict.fromkeys(s)): first occurrences, exact comparison.
RECURSIVE DictFromKeys(_)
DictFromKeys(s) ==
  IF s = << >> THEN << >>
  ELSE LET r == DictFromKeys(SubSeq(s, 1, Len(s) - 1))
           x == s[Len(s)]
       IN IF \E k \in 1..Len(r) : r[k] = x THEN r ELSE Append(r, x)

\* _build_policy_patterns, for one tier: the word alternation and the
\* phrase alternation of the compiled pattern (both empty: pattern None).
build_policy_pattern(l, policy) ==
  LET all == CatTerms(l, CatOrder, policies[policy])
      ascii == SelectSeq(all, LAMBDA t : t # << >> /\ is_ascii_term(t))
  IN [word_terms   |-> DictFromKeys(SelectSeq(ascii, LAMBDA t : ~HasSpace(t))),
      phrase_terms |-> DictFromKeys(SelectSeq(ascii, LAMBDA t : HasSpace(t)))]

policy_patterns(l) == [p \in Tiers |-> build_policy_pattern(l, p)]

\* ---------------------------------------------------------------- matcher
\* term matches text at position pos, ignoring case (re.IGNORECASE).
MatchesAt(text, pos, term) ==
  /\ pos + Len(term) - 1 <= Len(text)
  /\ \A k \in 1..Len(term) : Lower(text[pos + k - 1]) = Lower(term[k])

\* The word pattern without its lookahead.
NotWordAfter_unchecked(text, last) == last <= Len(text)

\* (?<![A-Za-z0-9_]) before pos, (?![A-Za-z0-9_]) after position last.
NotWordBefore(text, pos) == pos = 1 \/ text[pos - 1] \notin WordChars
NotWordAfter(text, last) == last = Len(text) \/ text[last + 1] \notin WordChars

\* The first alternative of terms (in order) that matches at pos and passes
\* ok: its length, 0 when none does.
RECURSIVE FirstAlt(_, _, _, _)
FirstAlt(text, pos, terms, needBoundary) ==
  IF terms = << >> THEN 0
  ELSE LET t == Head(terms)
       IN IF /\ MatchesAt(text, pos, t)
             /\ (needBoundary => NotWordAfter(text, pos + Len(t) - 1))
          THEN Len(t)
          ELSE FirstAlt(text, pos, Tail(terms), needBoundary)

\* Length of the pattern's match starting at pos (0: no match there): the
\* word alternation with its lookarounds first, then the phrases.
MatchLenAt(text, pos, pat) ==
  LET w == IF NotWordBefore(text, pos)
           THEN FirstAlt(text, pos, pat.word_terms, TRUE) ELSE 0
  IN IF w > 0 THEN w ELSE FirstAlt(text, pos, pat.phrase_terms, FALSE)

\* ascii_pat.finditer(text): the non-overlapping matches, left to right.
RECURSIVE FindIter(_, _, _)
FindIter(text, pos, pat) ==
  IF pos > Len(text) THEN << >>
  ELSE LET n == MatchLenAt(text, pos, pat)
       IN IF n > 0
          THEN <<SubSeq(text, pos, pos + n - 1)>> \o FindIter(text, pos + n, pat)
          ELSE FindIter(text, pos + 1, pat)

LowerText(w) == [k \in 1..Len(w) |-> Lower(w[k])]

\* The seen/result loop comparing the matches as they are, not lower-cased.
RECURSIVE DedupFolded_exact(_)
DedupFolded_exact(ms) ==
  IF ms = << >> THEN << >>
  ELSE LET r == DedupFolded_exact(SubSeq(ms, 1, Len(ms) - 1))
           w == ms[Len(ms)]
       IN IF \E k \in 1..Len(r) : r[k] = w THEN r ELSE Append(r, w)

\* The seen/result loop: first occurrences, compared after lower().
RECURSIVE DedupFolded(_)
DedupFolded(ms) ==
  IF ms = << >> THEN << >>
  ELSE LET r == DedupFolded(SubSeq(ms, 1, Len(ms) - 1))
           w == ms[Len(ms)]
       IN IF \E k \in 1..Len(r) : LowerText(r[k]) = LowerText(w)
          THEN r ELSE Append(r, w)

\* The matcher falling back to the full tier's pattern for the tier none.
FindWithPolicy_none_as_full(l, text, policy) ==
  IF text = << >> THEN << >>
  ELSE IF policy \notin Tiers THEN << >>
  ELSE LET pat == policy_patterns(l)[IF policy = "none" THEN "full" ELSE policy]
       IN IF pat.word_terms = << >> /\ pat.phrase_terms = << >> THEN << >>
          ELSE DedupFolded(FindIter(text, 1, pat))

\* _find_sensitive_words with the tier already resolved.
FindWithPolicy(l, text, policy) ==
  IF text = << >> THEN << >>
  ELSE IF policy = "none" THEN << >>
  ELSE IF policy \notin Tiers THEN << >>
  ELSE LET pat == policy_patterns(l)[policy]
       IN IF pat.word_terms = << >> /\ pat.phrase_terms = << >> THEN << >>
          ELSE DedupFolded(FindIter(text, 1, pat))

\* The texts the handlers below are given, and the matcher's result for
\* each of them under the lexicon above, computed once (the matcher is a
\* pure function of the lexicon, the text and the tier).
KnownTexts ==
  { <<"x">>, <<"y">>, <<"a", "b">>, <<"E">>,
    <<"a", "b", " ", "e", " ", "f", " ", "g", " ", "h", " ", "i">> }
MatchTable == [t \in KnownTexts, p \in Tiers |-> FindWithPolicy(lexicon, t, p)]
Matcher(l, text, policy) ==
  IF l = lexicon /\ text \in KnownTexts /\ policy \in Tiers
  THEN MatchTable[text, policy]
  ELSE FindWithPolicy(l, text, policy)

\* ------------------------------------------------------------------ state
VARIABLES
  lockdown,                \* control.lockdown
  admin_bypass_whitelist,  \* control.admin_bypass.whitelist
  admin_bypass_cooldown,   \* control.admin_bypass.cooldown
  admin_bypass_sensitive,  \* control.admin_bypass.sensitive_words
  default_group_policy,    \* control.default_group_policy
  default_private_policy,  \* control.default_private_policy
  multi_image_mode,        \* llm_settings.multi_image_mode
  lex,                     \* self.lexicon, as loaded by __init__
  group_policies,          \* group id -> tier (a partial map)
  user_cooldowns,          \* user id -> time of the last accepted action
  now,                     \* time.time(), in ticks
  ev,                      \* the in-flight events, one handler run each
  accepted,                \* history: per user, the cooldown checks that
                           \* passed without bypass: how many (up to 2),
                           \* the time of the last one, and whether two
                           \* in a row were less than the cooldown apart
  probe,                   \* the last direct call of the sensitive-word
                           \* check: its arguments and what it returned
  attrs                    \* the attributes the plugin sets on the events:
                           \* _comfy_extracted_prompt, _comfy_segments and
                           \* _comfy_auto_painted, and whether the auto-paint
                           \* handler was invoked again and returned at once

vars == <<lockdown, admin_bypass_whitelist, admin_bypass_cooldown,
          admin_bypass_sensitive, default_group_policy,
          default_private_policy, multi_image_mode, lex, group_policies,
          user_cooldowns, now, ev, accepted, probe, attrs>>

config == <<lockdown, admin_bypass_whitelist, admin_bypass_cooldown,
            admin_bypass_sensitive, default_group_policy,
            default_private_policy, multi_image_mode, lex>>

\* ----------------------------------------------------------------- checks
\* The resolver answering with the default of the scope's type always.
get_policy_for_event_defaults(scope) ==
  IF is_group_message(scope) THEN default_group_policy
  ELSE default_private_policy

\* _get_policy_for_event
get_policy_for_event(scope) ==
  IF is_group_message(scope)
  THEN LET gid == get_group_id(scope)
       IN IF gid = "" THEN default_group_policy
          ELSE IF gid \in DOMAIN group_policies THEN group_policies[gid]
          ELSE default_group_policy
  ELSE default_private_policy

\* _find_sensitive_words(text, event)
find_sensitive_words(text, scope) ==
  Matcher(lex, text, get_policy_for_event(scope))

\* check_access with the whitelist looked at before the lockdown.
check_access_whitelist_first(user, scope) ==
  LET is_admin == user \in admin_user_ids
  IN IF is_group_message(scope) /\ get_group_id(scope) = ""
     THEN [ok |-> FALSE, why |-> "no_gid"]
     ELSE IF is_group_message(scope)
             /\ get_group_id(scope) \notin whitelist_group_ids
             /\ ~(is_admin /\ admin_bypass_whitelist)
     THEN [ok |-> FALSE, why |-> "not_whitelisted"]
     ELSE IF lockdown /\ ~is_admin
     THEN [ok |-> FALSE, why |-> "lockdown"]
     ELSE [ok |-> TRUE, why |-> ""]

\* check_access letting every administrator through, whatever the flag.
check_access_admin_passes(user, scope) ==
  LET is_admin == user \in admin_user_ids
  IN IF lockdown /\ ~is_admin
     THEN [ok |-> FALSE, why |-> "lockdown"]
     ELSE IF is_group_message(scope) /\ get_group_id(scope) = ""
     THEN [ok |-> FALSE, why |-> "no_gid"]
     ELSE IF is_group_message(scope)
             /\ get_group_id(scope) \notin whitelist_group_ids
             /\ ~is_admin
     THEN [ok |-> FALSE, why |-> "not_whitelisted"]
     ELSE [ok |-> TRUE, why |-> ""]

\* _check_access: (allowed, reason)
check_access(user, scope) ==
  LET is_admin == user \in admin_user_ids
  IN IF lockdown /\ ~is_admin
     THEN [ok |-> FALSE, why |-> "lockdown"]
     ELSE IF is_group_message(scope)
     THEN LET gid == get_group_id(scope)
          IN IF gid = ""
             THEN [ok |-> FALSE, why |-> "no_gid"]
             ELSE IF gid \notin whitelist_group_ids
                     /\ ~(is_admin /\ admin_bypass_whitelist)
             THEN [ok |-> FALSE, why |-> "not_whitelisted"]
             ELSE [ok |-> TRUE, why |-> ""]
     ELSE [ok |-> TRUE, why |-> ""]

\* self.user_cooldowns.get(user_id, 0)
CooldownGet(cd, user) == IF user \in DOMAIN cd THEN cd[user] ELSE 0

\* check_cooldown taking a sender without entry as long past the cooldown.
check_cooldown_first_free(user) ==
  LET is_admin == user \in admin_user_ids
      limit == cooldown_seconds * TicksPerSecond
      elapsed == IF user \in DOMAIN user_cooldowns
                 THEN now - user_cooldowns[user] ELSE limit
  IN IF is_admin /\ admin_bypass_cooldown
     THEN [ok |-> TRUE, remain |-> 0, cd |-> user_cooldowns, bypass |-> TRUE]
     ELSE IF elapsed < limit
     THEN [ok |-> FALSE, remain |-> (limit - elapsed) \div TicksPerSecond,
           cd |-> user_cooldowns, bypass |-> FALSE]
     ELSE [ok |-> TRUE, remain |-> 0,
           cd |-> (user :> now) @@ user_cooldowns, bypass |-> FALSE]

\* check_cooldown storing the time of a refused attempt too.
check_cooldown_extend(user) ==
  LET is_admin == user \in admin_user_ids
      elapsed == now - CooldownGet(user_cooldowns, user)
      limit == cooldown_seconds * TicksPerSecond
  IN IF is_admin /\ admin_bypass_cooldown
     THEN [ok |-> TRUE, remain |-> 0, cd |-> user_cooldowns, bypass |-> TRUE]
     ELSE IF elapsed < limit
     THEN [ok |-> FALSE, remain |-> (limit - elapsed) \div TicksPerSecond,
           cd |-> (user :> now) @@ user_cooldowns, bypass |-> FALSE]
     ELSE [ok |-> TRUE, remain |-> 0,
           cd |-> (user :> now) @@ user_cooldowns, bypass |-> FALSE]

\* check_cooldown that stores the new time only later, after the await.
check_cooldown_nowrite(user) ==
  LET is_admin == user \in admin_user_ids
      elapsed == now - CooldownGet(user_cooldowns, user)
      limit == cooldown_seconds * TicksPerSecond
  IN IF is_admin /\ admin_bypass_cooldown
     THEN [ok |-> TRUE, remain |-> 0, cd |-> user_cooldowns, bypass |-> TRUE]
     ELSE IF elapsed < limit
     THEN [ok |-> FALSE, remain |-> (limit - elapsed) \div TicksPerSecond,
           cd |-> user_cooldowns, bypass |-> FALSE]
     ELSE [ok |-> TRUE, remain |-> 0, cd |-> user_cooldowns, bypass |-> FALSE]

\* check_cooldown recording the time of a bypassed administrator.
check_cooldown_bypass_writes(user) ==
  LET is_admin == user \in admin_user_ids
      elapsed == now - CooldownGet(user_cooldowns, user)
      limit == cooldown_seconds * TicksPerSecond
  IN IF is_admin /\ admin_bypass_cooldown
     THEN [ok |-> TRUE, remain |-> 0,
           cd |-> (user :> now) @@ user_cooldowns, bypass |-> TRUE]
     ELSE IF elapsed < limit
     THEN [ok |-> FALSE, remain |-> (limit - elapsed) \div TicksPerSecond,
           cd |-> user_cooldowns, bypass |-> FALSE]
     ELSE [ok |-> TRUE, remain |-> 0,
           cd |-> (user :> now) @@ user_cooldowns, bypass |-> FALSE]

\* _check_cooldown: (passed, remaining seconds), with the cooldown map it
\* leaves behind and whether the admin bypass answered.
check_cooldown(user) ==
  LET is_admin == user \in admin_user_ids
      elapsed == now - CooldownGet(user_cooldowns, user)
      limit == cooldown_seconds * TicksPerSecond
  IN IF is_admin /\ admin_bypass_cooldown
     THEN [ok |-> TRUE, remain |-> 0, cd |-> user_cooldowns, bypass |-> TRUE]
     ELSE IF elapsed < limit
     THEN [ok |-> FALSE, remain |-> (limit - elapsed) \div TicksPerSecond,
           cd |-> user_cooldowns, bypass |-> FALSE]
     ELSE [ok |-> TRUE, remain |-> 0,
           cd |-> (user :> now) @@ user_cooldowns, bypass |-> FALSE]

\* check_sensitive letting every sender through while the flag is on.
check_sensitive_flag_for_all(prompt, user, scope) ==
  LET sensitive == find_sensitive_words(prompt, scope)
  IN IF sensitive = << >> THEN [ok |-> TRUE, sensitive |-> << >>]
     ELSE IF admin_bypass_sensitive
     THEN [ok |-> TRUE, sensitive |-> << >>]
     ELSE [ok |-> FALSE, sensitive |-> sensitive]

\* check_sensitive letting every administrator through, whatever the flag.
check_sensitive_any_admin(prompt, user, scope) ==
  LET is_admin == user \in admin_user_ids
      sensitive == find_sensitive_words(prompt, scope)
  IN IF sensitive = << >> THEN [ok |-> TRUE, sensitive |-> << >>]
     ELSE IF is_admin THEN [ok |-> TRUE, sensitive |-> << >>]
     ELSE [ok |-> FALSE, sensitive |-> sensitive]

\* _check_sensitive: (passed, matched terms)
check_sensitive(prompt, user, scope) ==
  LET is_admin == user \in admin_user_ids
      sensitive == find_sensitive_words(prompt, scope)
  IN IF sensitive = << >> THEN [ok |-> TRUE, sensitive |-> << >>]
     ELSE IF is_admin /\ admin_bypass_sensitive
     THEN [ok |-> TRUE, sensitive |-> << >>]
     ELSE [ok |-> FALSE, sensitive |-> sensitive]

\* ----------------------------------------------------------------- events
\* What a handler run did, in order: one entry per check evaluated, per
\* backend call started and per message handed to the user.
\*   op = "access":    ok, why = reason of the refusal
\*   op = "cooldown":  ok, n = remaining seconds, why = "write" when the
\*                     check stored a new time, "bypass" when bypassed
\*   op = "sensitive": ok, p = prompt checked, terms = matched terms
\*                     returned, why = tier the matcher was taken from
\*   op = "generate":  p = prompt passed to api.generate
\*   op = "emit":      why = kind of message, terms/n/text = its content
Entry(op, ok, why, p, terms, text, n) ==
  [op |-> op, ok |-> ok, why |-> why, p |-> p, terms |-> terms,
   text |-> text, n |-> n]

AccessEntry(r) == Entry("access", r.ok, r.why, << >>, << >>, << >>, 0)
CooldownEntry(r) ==
  Entry("cooldown", r.ok,
        IF r.bypass THEN "bypass" ELSE IF r.ok THEN "write" ELSE "",
        << >>, << >>, << >>, r.remain)
SensitiveEntry(r, prompt, scope) ==
  Entry("sensitive", r.ok, get_policy_for_event(scope), prompt, r.sensitive,
        << >>, 0)
GenerateEntry(prompt) == Entry("generate", TRUE, "", prompt, << >>, << >>, 0)
Emit(why, terms, text, n) == Entry("emit", TRUE, why, << >>, terms, text, n)

\* s[:k]
Take(s, k) == SubSeq(s, 1, IF Len(s) < k THEN Len(s) ELSE k)

\* str.strip()
RECURSIVE Strip(_)
Strip(t) ==
  IF t = << >> THEN t
  ELSE IF Head(t) = " " THEN Strip(Tail(t))
  ELSE IF t[Len(t)] = " " THEN Strip(SubSeq(t, 1, Len(t) - 1))
  ELSE t

\* What _extract_prompt_before_filter leaves on the event: the attribute
\* _comfy_extracted_prompt (<< >>: not set), the attribute _comfy_segments
\* (<< >>: not set) and whether it logged the warning of discarded prompts.
Extraction(extracted, segments, warned) ==
  [extracted |-> extracted, segments |-> segments, warned |-> warned]
NoExtraction == Extraction(<< >>, << >>, FALSE)

NoPairs == << >>
IdleEvent ==
  [pc |-> "idle", kind |-> "", sender |-> "", scope |-> Private,
   pairs |-> NoPairs, idx |-> 0, trace |-> << >>,
   completion |-> << >>, llm |-> NoExtraction]

Single(pc, kind, user, scope, trace) ==
  [pc |-> pc, kind |-> kind, sender |-> user, scope |-> scope,
   pairs |-> NoPairs, idx |-> 0, trace |-> trace,
   completion |-> << >>, llm |-> NoExtraction]

\* The outcome of the synchronous part of a handler: the event it leaves,
\* the cooldown map, and whether a cooldown check passed without bypass.
Outcome(rec, cd, charged) == [rec |-> rec, cd |-> cd, charged |-> charged]

\* comfyui_txt2img making the cooldown check before the sensitive-word
\* check.
comfyui_txt2img_cooldown_first(kind, user, scope, prompt_arg, raw, pre) ==
  LET acc == check_access(user, scope)
      t1 == Append(pre, AccessEntry(acc))
      prompt == IF prompt_arg # << >> /\ Strip(prompt_arg) = << >>
                THEN Strip(raw) ELSE prompt_arg
      cool == check_cooldown(user)
      t2 == Append(t1, CooldownEntry(cool))
      sens == check_sensitive(prompt, user, scope)
      t3 == Append(t2, SensitiveEntry(sens, prompt, scope))
  IN IF ~acc.ok
     THEN Outcome(Single("done", kind, user, scope,
                         Append(t1, Emit(acc.why, << >>, << >>, 0))),
                  user_cooldowns, FALSE)
     ELSE IF prompt = << >>
     THEN Outcome(Single("done", kind, user, scope,
                         Append(t1, Emit("no_prompt", << >>, << >>, 0))),
                  user_cooldowns, FALSE)
     ELSE IF ~cool.ok
     THEN Outcome(Single("done", kind, user, scope,
                         Append(t2, Emit("cooldown", << >>, << >>, cool.remain))),
                  cool.cd, FALSE)
     ELSE IF ~sens.ok
     THEN Outcome(Single("done", kind, user, scope,
                         Append(t3, Emit("sensitive", Take(sens.sensitive, 5),
                                         << >>, 0))),
                  cool.cd, ~cool.bypass)
     ELSE Outcome(Single("generating", kind, user, scope,
                         Append(t3, GenerateEntry(prompt))),
                  cool.cd, ~cool.bypass)

\* comfyui_txt2img up to its first suspension: the access check, the
\* parameter handling, the sensitive-word check, the cooldown check and the
\* call of api.generate.  pre: what the caller did before.
comfyui_txt2img(kind, user, scope, prompt_arg, raw, pre) ==
  LET acc == check_access(user, scope)
      t1 == Append(pre, AccessEntry(acc))
      prompt == IF prompt_arg # << >> /\ Strip(prompt_arg) = << >>
                THEN Strip(raw) ELSE prompt_arg
      sens == check_sensitive(prompt, user, scope)
      t2 == Append(t1, SensitiveEntry(sens, prompt, scope))
      cool == check_cooldown(user)
      t3 == Append(t2, CooldownEntry(cool))
  IN IF ~acc.ok
     THEN Outcome(Single("done", kind, user, scope,
                         Append(t1, Emit(acc.why, << >>, << >>, 0))),
                  user_cooldowns, FALSE)
     ELSE IF prompt = << >>
     THEN Outcome(Single("done", kind, user, scope,
                         Append(t1, Emit("no_prompt", << >>, << >>, 0))),
                  user_cooldowns, FALSE)
     ELSE IF ~sens.ok
     THEN Outcome(Single("done", kind, user, scope,
                         Append(t2, Emit("sensitive", Take(sens.sensitive, 5),
                                         << >>, 0))),
                  user_cooldowns, FALSE)
     ELSE IF ~cool.ok
     THEN Outcome(Single("done", kind, user, scope,
                         Append(t3, Emit("cooldown", << >>, << >>, cool.remain))),
                  cool.cd, FALSE)
     ELSE Outcome(Single("generating", kind, user, scope,
                         Append(t3, GenerateEntry(prompt))),
                  cool.cd, ~cool.bypass)

\* _handle_paint_logic up to its first suspension: access check, prompt
\* taken from the message, sensitive-word check, then comfyui_txt2img.
handle_paint_logic(user, scope, arg) ==
  LET acc == check_access(user, scope)
      t1 == <<AccessEntry(acc)>>
      prompt == Strip(arg)
      sens == check_sensitive(prompt, user, scope)
      t2 == Append(t1, SensitiveEntry(sens, prompt, scope))
      extra == IF Len(sens.sensitive) > 5 THEN Len(sens.sensitive) ELSE 0
  IN IF ~acc.ok
     THEN Outcome(Single("done", "paint", user, scope,
                         Append(t1, Emit(acc.why, << >>, << >>, 0))),
                  user_cooldowns, FALSE)
     ELSE IF prompt = << >>
     THEN Outcome(Single("done", "paint", user, scope,
                         Append(t1, Emit("no_prompt", << >>, << >>, 0))),
                  user_cooldowns, FALSE)
     ELSE IF ~sens.ok
     THEN Outcome(Single("done", "paint", user, scope,
                         Append(t2, Emit("sensitive", Take(sens.sensitive, 5),
                                         << >>, extra))),
                  user_cooldowns, FALSE)
     ELSE comfyui_txt2img("paint", user, scope, prompt, << >>, t2)

\* ----------------------------------------------------- tier-change command
\* The keys of self.policies as texts.
TierText ==
  [none |-> <<"n", "o", "n", "e">>,
   lite |-> <<"l", "i", "t", "e">>,
   full |-> <<"f", "u", "l", "l">>]

\* str.split(): the maximal runs of characters other than the space.
RECURSIVE SplitFrom(_, _, _)
SplitFrom(t, k, word) ==
  IF k > Len(t) THEN (IF word # << >> THEN <<word>> ELSE << >>)
  ELSE IF t[k] = " "
  THEN (IF word # << >> THEN <<word>> ELSE << >>) \o SplitFrom(t, k + 1, << >>)
  ELSE SplitFrom(t, k + 1, Append(word, t[k]))

Split(t) == SplitFrom(t, 1, << >>)

\* What the command received.
CommandEntry(msg) == Entry("command", TRUE, "", msg, << >>, << >>, 0)

\* The outcome of a command: the event it leaves and the tier map.
PolicyOutcome(rec, gp) == [rec |-> rec, gp |-> gp]

\* cmd_set_policy comparing the level as typed, not lower-cased.
set_policy_case_sensitive(user, scope, msg) ==
  LET acc == check_access(user, scope)
      t1 == <<CommandEntry(msg), AccessEntry(acc)>>
      parts == <<<<"banlevel">>>> \o Split(Strip(msg))
      gid == get_group_id(scope)
      current == IF gid \in DOMAIN group_policies THEN group_policies[gid]
                 ELSE default_group_policy
      level == IF Len(parts) > 1 THEN parts[2] ELSE << >>
      done(why, terms, text) ==
        Single("done", "policy", user, scope,
               Append(t1, Emit(why, terms, text, 0)))
  IN IF ~acc.ok THEN PolicyOutcome(done(acc.why, << >>, << >>), group_policies)
     ELSE IF ~is_group_message(scope)
     THEN PolicyOutcome(done("group_only", << >>, << >>), group_policies)
     ELSE IF user \notin admin_user_ids
     THEN PolicyOutcome(done("not_admin", << >>, << >>), group_policies)
     ELSE IF Len(parts) = 1
     THEN PolicyOutcome(done("current", << >>, TierText[current]), group_policies)
     ELSE IF \A p \in Tiers : TierText[p] # level
     THEN PolicyOutcome(done("invalid_level",
                             <<TierText["none"], TierText["lite"], TierText["full"]>>,
                             << >>),
                        group_policies)
     ELSE PolicyOutcome(done("set", << >>, level),
                        (gid :> (CHOOSE p \in Tiers : TierText[p] = level))
                          @@ group_policies)

\* cmd_set_policy without the test of the sender against the admin set.
set_policy_any_user(user, scope, msg) ==
  LET acc == check_access(user, scope)
      t1 == <<CommandEntry(msg), AccessEntry(acc)>>
      parts == <<<<"banlevel">>>> \o Split(Strip(msg))
      gid == get_group_id(scope)
      current == IF gid \in DOMAIN group_policies THEN group_policies[gid]
                 ELSE default_group_policy
      level == IF Len(parts) > 1 THEN LowerText(parts[2]) ELSE << >>
      done(why, terms, text) ==
        Single("done", "policy", user, scope,
               Append(t1, Emit(why, terms, text, 0)))
  IN IF ~acc.ok THEN PolicyOutcome(done(acc.why, << >>, << >>), group_policies)
     ELSE IF ~is_group_message(scope)
     THEN PolicyOutcome(done("group_only", << >>, << >>), group_policies)
     ELSE IF Len(parts) = 1
     THEN PolicyOutcome(done("current", << >>, TierText[current]), group_policies)
     ELSE IF \A p \in Tiers : TierText[p] # level
     THEN PolicyOutcome(done("invalid_level",
                             <<TierText["none"], TierText["lite"], TierText["full"]>>,
                             << >>),
                        group_policies)
     ELSE PolicyOutcome(done("set", << >>, level),
                        (gid :> (CHOOSE p \in Tiers : TierText[p] = level))
                          @@ group_policies)

\* cmd_set_policy: "/banlevel <msg>", msg the text after the command word.
\* (The access check refuses a group message without group id, so gid is
\* never the placeholder of line 487 here.)
set_policy(user, scope, msg) ==
  LET acc == check_access(user, scope)
      t1 == <<CommandEntry(msg), AccessEntry(acc)>>
      parts == <<<<"banlevel">>>> \o Split(Strip(msg))
      gid == get_group_id(scope)
      current == IF gid \in DOMAIN group_policies THEN group_policies[gid]
                 ELSE default_group_policy
      level == IF Len(parts) > 1 THEN LowerText(parts[2]) ELSE << >>
      done(why, terms, text) ==
        Single("done", "policy", user, scope,
               Append(t1, Emit(why, terms, text, 0)))
  IN IF ~acc.ok THEN PolicyOutcome(done(acc.why, << >>, << >>), group_policies)
     ELSE IF ~is_group_message(scope)
     THEN PolicyOutcome(done("group_only", << >>, << >>), group_policies)
     ELSE IF user \notin admin_user_ids
     THEN PolicyOutcome(done("not_admin", << >>, << >>), group_policies)
     ELSE IF Len(parts) = 1
     THEN PolicyOutcome(done("current", << >>, TierText[current]), group_policies)
     ELSE IF \A p \in Tiers : TierText[p] # level
     THEN PolicyOutcome(done("invalid_level",
                             <<TierText["none"], TierText["lite"], TierText["full"]>>,
                             << >>),
                        group_policies)
     ELSE PolicyOutcome(done("set", << >>, level),
                        (gid :> (CHOOSE p \in Tiers : TierText[p] = level))
                          @@ group_policies)

\* cmd_comfyui_help: the access check, then the help text with the tier of
\* the scope.
comfyui_help(user, scope) ==
  LET acc == check_access(user, scope)
      t1 == <<AccessEntry(acc)>>
  IN IF ~acc.ok
     THEN Single("done", "help", user, scope,
                 Append(t1, Emit(acc.why, << >>, << >>, 0)))
     ELSE Single("done", "help", user, scope,
                 Append(t1, Emit("help", << >>,
                                 TierText[get_policy_for_event(scope)], 0)))

\* ------------------------------------------------------ multi-image batch
Text(type, content) == [type |-> type, content |-> content]
Pair(text, prompt) == [text |-> text, prompt |-> prompt]

\* The re-pairing with the pending text kept after a prompt took it.
RECURSIVE RePairFrom_keep(_, _, _)
RePairFrom_keep(segments, k, current_text) ==
  IF k > Len(segments)
  THEN IF current_text # << >> THEN <<Pair(current_text, << >>)>> ELSE << >>
  ELSE IF segments[k].type = "text"
  THEN RePairFrom_keep(segments, k + 1, segments[k].content)
  ELSE IF segments[k].type = "prompt"
  THEN <<Pair(current_text, segments[k].content)>>
       \o RePairFrom_keep(segments, k + 1, current_text)
  ELSE RePairFrom_keep(segments, k + 1, current_text)

\* The (text, prompt) pairs of a segment list; prompt << >> stands for None.
RECURSIVE RePairFrom(_, _, _)
RePairFrom(segments, k, current_text) ==
  IF k > Len(segments)
  THEN IF current_text # << >> THEN <<Pair(current_text, << >>)>> ELSE << >>
  ELSE IF segments[k].type = "text"
  THEN RePairFrom(segments, k + 1, segments[k].content)
  ELSE IF segments[k].type = "prompt"
  THEN <<Pair(current_text, segments[k].content)>>
       \o RePairFrom(segments, k + 1, << >>)
  ELSE RePairFrom(segments, k + 1, current_text)

RePair(segments) == RePairFrom(segments, 1, << >>)

Batch(pc, user, scope, pairs, idx, trace) ==
  [pc |-> pc, kind |-> "batch", sender |-> user, scope |-> scope,
   pairs |-> pairs, idx |-> idx, trace |-> trace,
   completion |-> << >>, llm |-> NoExtraction]

\* The loop checking the batch's first prompt in place of the pair's own.
RECURSIVE BatchRun_first(_, _, _, _, _)
BatchRun_first(user, scope, pairs, i, trace) ==
  IF i > Len(pairs) THEN Batch("done", user, scope, pairs, i, trace)
  ELSE LET text_content == pairs[i].text
           prompt_content == pairs[i].prompt
           sens == check_sensitive(pairs[1].prompt, user, scope)
           t1 == Append(trace, SensitiveEntry(sens, pairs[1].prompt, scope))
       IN IF prompt_content # << >>
          THEN IF ~sens.ok
               THEN Batch("sending", user, scope, pairs, i,
                          Append(t1, Emit("sensitive", Take(sens.sensitive, 3),
                                          text_content, 0)))
               ELSE Batch("generating", user, scope, pairs, i,
                          Append(t1, GenerateEntry(prompt_content)))
          ELSE IF text_content # << >>
          THEN Batch("sending", user, scope, pairs, i,
                     Append(trace, Emit("text", << >>, text_content, 0)))
          ELSE BatchRun_first(user, scope, pairs, i + 1, trace)

\* The loop going on to api.generate after a failed sensitive-word check.
RECURSIVE BatchRun_nostop(_, _, _, _, _)
BatchRun_nostop(user, scope, pairs, i, trace) ==
  IF i > Len(pairs) THEN Batch("done", user, scope, pairs, i, trace)
  ELSE LET text_content == pairs[i].text
           prompt_content == pairs[i].prompt
           sens == check_sensitive(prompt_content, user, scope)
           t1 == Append(trace, SensitiveEntry(sens, prompt_content, scope))
       IN IF prompt_content # << >>
          THEN Batch("generating", user, scope, pairs, i,
                     Append(t1, GenerateEntry(prompt_content)))
          ELSE IF text_content # << >>
          THEN Batch("sending", user, scope, pairs, i,
                     Append(trace, Emit("text", << >>, text_content, 0)))
          ELSE BatchRun_nostop(user, scope, pairs, i + 1, trace)

\* The loop with the cooldown check made for every image.
RECURSIVE BatchRun_recheck(_, _, _, _, _)
BatchRun_recheck(user, scope, pairs, i, trace) ==
  IF i > Len(pairs) THEN Batch("done", user, scope, pairs, i, trace)
  ELSE LET text_content == pairs[i].text
           prompt_content == pairs[i].prompt
           cool == check_cooldown(user)
           t0 == Append(trace, CooldownEntry(cool))
           sens == check_sensitive(prompt_content, user, scope)
           t1 == Append(t0, SensitiveEntry(sens, prompt_content, scope))
       IN IF prompt_content # << >>
          THEN IF ~cool.ok
               THEN Batch("sending", user, scope, pairs, i,
                          Append(t0, Emit("cooldown", << >>, text_content,
                                          cool.remain)))
               ELSE IF ~sens.ok
               THEN Batch("sending", user, scope, pairs, i,
                          Append(t1, Emit("sensitive", Take(sens.sensitive, 3),
                                          text_content, 0)))
               ELSE Batch("generating", user, scope, pairs, i,
                          Append(t1, GenerateEntry(prompt_content)))
          ELSE IF text_content # << >>
          THEN Batch("sending", user, scope, pairs, i,
                     Append(trace, Emit("text", << >>, text_content, 0)))
          ELSE BatchRun_recheck(user, scope, pairs, i + 1, trace)

\* The loop judging every prompt under the tier of the batch's first check.
RECURSIVE BatchRun_frozen(_, _, _, _, _)
BatchRun_frozen(user, scope, pairs, i, trace) ==
  IF i > Len(pairs) THEN Batch("done", user, scope, pairs, i, trace)
  ELSE LET text_content == pairs[i].text
           prompt_content == pairs[i].prompt
           first == SelectSeq(trace, LAMBDA x : x.op = "sensitive")
           tier == IF first # << >> THEN first[1].why
                   ELSE get_policy_for_event(scope)
           found == Matcher(lex, prompt_content, tier)
           sens == IF found = << >>
                      \/ (user \in admin_user_ids /\ admin_bypass_sensitive)
                   THEN [ok |-> TRUE, sensitive |-> << >>]
                   ELSE [ok |-> FALSE, sensitive |-> found]
           t1 == Append(trace, Entry("sensitive", sens.ok, tier, prompt_content,
                                     sens.sensitive, << >>, 0))
       IN IF prompt_content # << >>
          THEN IF ~sens.ok
               THEN Batch("sending", user, scope, pairs, i,
                          Append(t1, Emit("sensitive", Take(sens.sensitive, 3),
                                          text_content, 0)))
               ELSE Batch("generating", user, scope, pairs, i,
                          Append(t1, GenerateEntry(prompt_content)))
          ELSE IF text_content # << >>
          THEN Batch("sending", user, scope, pairs, i,
                     Append(trace, Emit("text", << >>, text_content, 0)))
          ELSE BatchRun_frozen(user, scope, pairs, i + 1, trace)

\* The "for pair in pairs" loop from pair i up to its next suspension: the
\* await of api.generate, the await of event.send, or the end of the batch.
RECURSIVE BatchRun(_, _, _, _, _)
BatchRun(user, scope, pairs, i, trace) ==
  IF i > Len(pairs) THEN Batch("done", user, scope, pairs, i, trace)
  ELSE LET text_content == pairs[i].text
           prompt_content == pairs[i].prompt
           sens == check_sensitive(prompt_content, user, scope)
           t1 == Append(trace, SensitiveEntry(sens, prompt_content, scope))
       IN IF prompt_content # << >>
          THEN IF ~sens.ok
               THEN Batch("sending", user, scope, pairs, i,
                          Append(t1, Emit("sensitive", Take(sens.sensitive, 3),
                                          text_content, 0)))
               ELSE Batch("generating", user, scope, pairs, i,
                          Append(t1, GenerateEntry(prompt_content)))
          ELSE IF text_content # << >>
          THEN Batch("sending", user, scope, pairs, i,
                     Append(trace, Emit("text", << >>, text_content, 0)))
          ELSE BatchRun(user, scope, pairs, i + 1, trace)

\* _auto_paint_from_llm, multi-image branch, up to its first suspension.
auto_paint_from_llm(user, scope, segments) ==
  LET acc == check_access(user, scope)
      t1 == <<AccessEntry(acc)>>
      pairs == RePair(segments)
      cool == check_cooldown(user)
      t2 == Append(t1, CooldownEntry(cool))
  IN IF ~acc.ok
     THEN Outcome(Batch("done", user, scope, NoPairs, 0, t1),
                  user_cooldowns, FALSE)
     ELSE IF ~cool.ok
     THEN Outcome(Batch("refusing", user, scope, pairs, 0,
                        Append(t2, Emit("cooldown", << >>, << >>, cool.remain))),
                  cool.cd, FALSE)
     ELSE Outcome(BatchRun(user, scope, pairs, 1, t2), cool.cd, ~cool.bypass)

\* ------------------------------------------------------ response segmenter
\* A completion text is a sequence of characters in which the tags and the
\* label stand as one element each.
OpenTag == "<p>"
CloseTag == "</p>"
Label == "label"
Colons == {":"}
\* The characters of the second strip: backtick, double and single quote.
QuoteChars == {"backtick", "dquote", "quote"}

\* The first position from pos on where tok stands in text, 0 if nowhere.
FirstIndex(text, pos, tok) ==
  IF \E k \in pos..Len(text) : text[k] = tok
  THEN CHOOSE k \in pos..Len(text) :
         text[k] = tok /\ \A j \in pos..(k - 1) : text[j] # tok
  ELSE 0

\* The close tag that ends the match starting at the first open tag from
\* pos on, 0 when the pattern matches nowhere from pos on.
NextClose(text, pos) ==
  LET o == FirstIndex(text, pos, OpenTag)
  IN IF o = 0 THEN 0 ELSE FirstIndex(text, o + 1, CloseTag)

\* re.findall(r'<tag>(.*?)</tag>', text, re.DOTALL), from pos on.
RECURSIVE FindAll(_, _)
FindAll(text, pos) ==
  LET o == FirstIndex(text, pos, OpenTag)
      c == NextClose(text, pos)
  IN IF c = 0 THEN << >>
     ELSE <<SubSeq(text, o + 1, c - 1)>> \o FindAll(text, c + 1)

\* re.split(r'<tag>.*?</tag>', text, re.DOTALL), from pos on.
RECURSIVE SplitOnTags(_, _)
SplitOnTags(text, pos) ==
  LET o == FirstIndex(text, pos, OpenTag)
      c == NextClose(text, pos)
  IN IF c = 0 THEN <<SubSeq(text, pos, Len(text))>>
     ELSE <<SubSeq(text, pos, o - 1)>> \o SplitOnTags(text, c + 1)

\* str.lstrip()
RECURSIVE LStrip(_)
LStrip(t) == IF t # << >> /\ Head(t) = " " THEN LStrip(Tail(t)) ELSE t

\* re.sub(r'^label\s*[::]?\s*', '', p)
StripLabel(p) ==
  IF p # << >> /\ Head(p) = Label
  THEN LET rest == LStrip(Tail(p))
       IN IF rest # << >> /\ Head(rest) \in Colons
          THEN LStrip(Tail(rest)) ELSE rest
  ELSE p

\* str.strip(chars)
RECURSIVE StripChars(_, _)
StripChars(t, chars) ==
  IF t = << >> THEN t
  ELSE IF Head(t) \in chars THEN StripChars(Tail(t), chars)
  ELSE IF t[Len(t)] \in chars THEN StripChars(SubSeq(t, 1, Len(t) - 1), chars)
  ELSE t

\* The cleaning of one tag content.
CleanPrompt(p) == Strip(StripChars(Strip(StripLabel(p)), QuoteChars))

\* cleaned_prompts: the cleaned tag contents that are not empty.
RECURSIVE CleanAll(_)
CleanAll(prompts) ==
  IF prompts = << >> THEN << >>
  ELSE LET q == CleanPrompt(Head(prompts))
       IN (IF q # << >> THEN <<q>> ELSE << >>) \o CleanAll(Tail(prompts))

cleaned_prompts(text) == CleanAll(FindAll(text, 1))

\* The loop over the chunks ending with the last prompt.
RECURSIVE BuildSegments_stop(_, _, _, _)
BuildSegments_stop(parts, cleaned, i, prompt_idx) ==
  IF i > Len(parts) \/ prompt_idx >= Len(cleaned) THEN << >>
  ELSE LET text == Strip(parts[i])
           t == IF text # << >> THEN <<Text("text", text)>> ELSE << >>
       IN t \o <<Text("prompt", cleaned[prompt_idx + 1])>>
            \o BuildSegments_stop(parts, cleaned, i + 1, prompt_idx + 1)

\* The loop over the chunks between the tags, from chunk i on, prompt_idx
\* prompts consumed so far.
RECURSIVE BuildSegments(_, _, _, _)
BuildSegments(parts, cleaned, i, prompt_idx) ==
  IF i > Len(parts) THEN << >>
  ELSE LET text == Strip(parts[i])
           t == IF text # << >> THEN <<Text("text", text)>> ELSE << >>
       IN IF prompt_idx < Len(cleaned)
          THEN t \o <<Text("prompt", cleaned[prompt_idx + 1])>>
                 \o BuildSegments(parts, cleaned, i + 1, prompt_idx + 1)
          ELSE t \o BuildSegments(parts, cleaned, i + 1, prompt_idx)

\* The segmenter building the segment list for a single prompt too.
extract_single_as_segments(text, multi) ==
  LET cleaned == cleaned_prompts(text)
  IN IF text = << >> THEN NoExtraction
     ELSE IF FindAll(text, 1) = << >> THEN NoExtraction
     ELSE IF cleaned = << >> THEN NoExtraction
     ELSE IF multi
     THEN Extraction(<< >>,
                     BuildSegments(SplitOnTags(text, 1), cleaned, 1, 0), FALSE)
     ELSE Extraction(cleaned[1], << >>, Len(cleaned) > 1)

\* _extract_prompt_before_filter(event, resp), text = resp.completion_text,
\* multi = self.multi_image_mode.
extract_prompt_before_filter(text, multi) ==
  LET cleaned == cleaned_prompts(text)
  IN IF text = << >> THEN NoExtraction
     ELSE IF FindAll(text, 1) = << >> THEN NoExtraction
     ELSE IF cleaned = << >> THEN NoExtraction
     ELSE IF Len(cleaned) = 1 THEN Extraction(cleaned[1], << >>, FALSE)
     ELSE IF multi
     THEN Extraction(<< >>,
                     BuildSegments(SplitOnTags(text, 1), cleaned, 1, 0), FALSE)
     ELSE Extraction(cleaned[1], << >>, TRUE)

\* ----------------------------------------------------------------- inputs
Clean == <<"x">>
OneTerm == <<"a", "b">>
SixTerms == <<"a", "b", " ", "e", " ", "f", " ", "g", " ", "h", " ", "i">>
FullOnly == <<"E">>

\* Prompts given to the paint command and to the tool.
PromptPool == {<< >>, <<" ">>, Clean, FullOnly, SixTerms}
\* event.message_str of a tool call (used when the prompt is blank).
RawPool == {OneTerm}
\* Segment lists left on the event by the response segmenter.
SegmentsA ==
  << Text("text", <<"x">>), Text("prompt", Clean),
     Text("prompt", SixTerms), Text("text", <<"y">>) >>
SegmentsB ==
  << Text("prompt", FullOnly), Text("text", <<"y">>),
     Text("prompt", Clean) >>
SegmentPool == {SegmentsA, SegmentsB}

\* Results of "await self.api.generate(prompt)".
GenerateResults == {"image", "nodata", "error"}

\* ------------------------------------------------------------------- init
\* No direct call of the sensitive-word check made yet.
NoProbe ==
  [called |-> FALSE, text |-> << >>, user |-> "", scope |-> Private,
   tier |-> "", found |-> [p \in Tiers |-> << >>], ok |-> TRUE,
   sensitive |-> << >>]

\* The attributes of an event the plugin has not touched.
NoAttrs == [llm |-> NoExtraction, auto_painted |-> FALSE, skipped |-> FALSE]

\* What __init__ leaves besides the configuration: no cooldown recorded, no
\* event in flight.
InitRuntime ==
  /\ user_cooldowns = << >>
  /\ now = 0
  /\ ev = [e \in EventIds |-> IdleEvent]
  /\ accepted = [u \in Users |-> [n |-> 0, last |-> 0, close |-> FALSE]]
  /\ probe = NoProbe
  /\ attrs = [e \in EventIds |-> NoAttrs]

\* The state after __init__: the configuration as loaded, no cooldown
\* recorded, no event in flight.  The tiers of the deployment: groups are
\* lite by default, private chats full, group g2 is set to none; the
\* multi-image mode is on.
Init ==
  /\ lockdown \in BOOLEAN
  /\ admin_bypass_whitelist \in BOOLEAN
  /\ admin_bypass_cooldown \in BOOLEAN
  /\ admin_bypass_sensitive \in BOOLEAN
  /\ default_group_policy = "lite"
  /\ default_private_policy = "full"
  /\ multi_image_mode = TRUE
  /\ lex = lexicon
  /\ group_policies = ("g2" :> "none")
  /\ InitRuntime

\* ---------------------------------------------------------------- actions
Free(e) == ev[e].pc = "idle"

\* The history of a user after one more check passed, at time t.
Accept(h, t) ==
  [n |-> IF h.n < 2 THEN h.n + 1 ELSE 2,
   last |-> t,
   close |-> h.close
             \/ (h.n > 0 /\ t - h.last < cooldown_seconds * TicksPerSecond)]

\* A handler ran up to its first suspension (or to its end).  The handler
\* that starts a batch or the generation of an extracted prompt has set
\* event._comfy_auto_painted on its way.
Ran(e, user, out) ==
  /\ ev' = [ev EXCEPT ![e] = out.rec]
  /\ user_cooldowns' = out.cd
  /\ accepted' = IF out.charged
                 THEN [accepted EXCEPT ![user] = Accept(@, now)]
                 ELSE accepted
  /\ attrs' = [attrs EXCEPT ![e].auto_painted =
                                 @ \/ out.rec.kind \in {"batch", "auto"}]
  /\ UNCHANGED <<config, probe, group_policies, now>>

\* time.time() advances.
Tick ==
  /\ now < MaxTime
  /\ now' = now + 1
  /\ UNCHANGED <<config, probe, group_policies, user_cooldowns, ev, accepted,
               attrs>>

\* cmd_paint / cmd_paint_no: "/画图 <arg>"
cmd_paint(e, U, S, P) ==
  /\ Free(e)
  /\ \E user \in U, scope \in S, arg \in P :
       Ran(e, user, handle_paint_logic(user, scope, arg))

\* The LLM calls the tool comfyui_txt2img.
llm_tool(e, U, S, P) ==
  /\ Free(e)
  /\ \E user \in U, scope \in S, prompt \in P, raw \in RawPool :
       Ran(e, user, comfyui_txt2img("tool", user, scope, prompt, raw, << >>))

\* on_decorating_result with a segment list on the event.
auto_paint(e, U, S, G) ==
  /\ Free(e)
  /\ multi_image_mode
  /\ \E user \in U, scope \in S, segments \in G :
       Ran(e, user, auto_paint_from_llm(user, scope, segments))

\* on_decorating_result with a single extracted prompt on the event (the
\* segmenter leaves only stripped, non-empty prompts).
auto_paint_single(e, U, S, P) ==
  /\ Free(e)
  /\ \E user \in U, scope \in S, prompt \in {q \in P : Strip(q) # << >>},
        raw \in RawPool :
       Ran(e, user, comfyui_txt2img("auto", user, scope, prompt, raw, << >>))

LastGenerated(e) == ev[e].trace[Len(ev[e].trace)].p

\* api.generate returns to comfyui_txt2img.
generate_returns(e) ==
  /\ ev[e].pc = "generating"
  /\ ev[e].kind \in {"paint", "tool", "auto"}
  /\ \E res \in GenerateResults :
       ev' = [ev EXCEPT ![e].pc = "done",
                        ![e].trace =
                          IF res = "image"
                          THEN Append(@, Entry("emit", TRUE, "image",
                                               LastGenerated(e), << >>, << >>, 0))
                          ELSE IF res = "nodata"
                          THEN Append(@, Emit("gen_failed", << >>, << >>, 0))
                          ELSE @]
  /\ UNCHANGED <<config, probe, group_policies, user_cooldowns, now, accepted,
               attrs>>

\* api.generate returning to a loop that an exception ends.
batch_generate_returns_abort(e) ==
  /\ ev[e].pc = "generating"
  /\ ev[e].kind = "batch"
  /\ LET r == ev[e]
         text_content == r.pairs[r.idx].text
     IN \E res \in GenerateResults :
          ev' = [ev EXCEPT ![e] =
                   IF res = "image"
                   THEN [r EXCEPT !.pc = "sending",
                                  !.trace = Append(@, Entry("emit", TRUE, "image",
                                                LastGenerated(e), << >>,
                                                text_content, 0))]
                   ELSE IF res = "nodata"
                   THEN [r EXCEPT !.pc = "sending",
                                  !.trace = Append(@, Emit("gen_failed", << >>,
                                                           text_content, 0))]
                   ELSE [r EXCEPT !.pc = "done"]]
  /\ UNCHANGED <<config, probe, group_policies, user_cooldowns, now, accepted,
               attrs>>

\* api.generate returns to the batch loop.
batch_generate_returns(e) ==
  /\ ev[e].pc = "generating"
  /\ ev[e].kind = "batch"
  /\ LET r == ev[e]
         text_content == r.pairs[r.idx].text
     IN \E res \in GenerateResults :
          ev' = [ev EXCEPT ![e] =
                   IF res = "image"
                   THEN [r EXCEPT !.pc = "sending",
                                  !.trace = Append(@, Entry("emit", TRUE, "image",
                                                LastGenerated(e), << >>,
                                                text_content, 0))]
                   ELSE IF res = "nodata"
                   THEN [r EXCEPT !.pc = "sending",
                                  !.trace = Append(@, Emit("gen_failed", << >>,
                                                           text_content, 0))]
                   ELSE BatchRun(r.sender, r.scope, r.pairs, r.idx + 1, r.trace)]
  /\ UNCHANGED <<config, probe, group_policies, user_cooldowns, now, accepted,
               attrs>>

\* event.send returns (or raises) inside the batch loop.
batch_send_returns(e) ==
  /\ ev[e].pc = "sending"
  /\ LET r == ev[e]
     IN ev' = [ev EXCEPT ![e] =
                 BatchRun(r.sender, r.scope, r.pairs, r.idx + 1, r.trace)]
  /\ UNCHANGED <<config, probe, group_policies, user_cooldowns, now, accepted,
               attrs>>

\* event.send of the cooldown refusal returns; the handler returns.
refusal_sent(e) ==
  /\ ev[e].pc = "refusing"
  /\ ev' = [ev EXCEPT ![e].pc = "done"]
  /\ UNCHANGED <<config, probe, group_policies, user_cooldowns, now, accepted,
               attrs>>

\* The handler has returned; the framework is done with the event.
event_done(e) ==
  /\ ev[e].pc = "done"
  /\ ev' = [ev EXCEPT ![e] = IdleEvent]
  /\ attrs' = [attrs EXCEPT ![e] = NoAttrs]
  /\ UNCHANGED <<config, probe, group_policies, user_cooldowns, now, accepted>>

\* One step of the plugin with events E in flight at most and the inputs
\* drawn from users U, scopes S, prompts P and segment lists G.
Step(E, U, S, P, G) ==
  \/ Tick
  \/ \E e \in E : cmd_paint(e, U, S, P)
  \/ \E e \in E : llm_tool(e, U, S, P)
  \/ \E e \in E : auto_paint(e, U, S, G)
  \/ \E e \in E : auto_paint_single(e, U, S, P)
  \/ \E e \in E : generate_returns(e)
  \/ \E e \in E : batch_generate_returns(e)
  \/ \E e \in E : batch_send_returns(e)
  \/ \E e \in E : refusal_sent(e)
  \/ \E e \in E : event_done(e)

\* Events handled one after the other, every input, every setting of the
\* lockdown and bypass flags.
Next == Step({"e1"}, Users, Scopes, PromptPool, SegmentPool)

Spec == Init /\ [][Next]_vars

\* --------------------------------------------- the matcher, called directly
\* Lexicon files: the deployment's; the default one of a missing file; one
\* whose lite term lies inside a phrase of another category; one with
\* non-ASCII terms only; one with category keys outside the built-in names;
\* one with terms equal up to case and an empty term.
LexiconPool ==
  { lexicon,
    [legacy_lite |-> << >>, full |-> << >>],
    [legacy_lite |-> << <<"b">> >>, sexual |-> << <<"a", " ", "b">>, <<"e">> >>],
    [legacy_lite |-> << <<"U+732B">> >>, nudity |-> << <<"a", "U+732B">> >>],
    [custom |-> << <<"a", "b">> >>, full |-> << <<"c", " ", "d">> >>],
    [legacy_lite |-> << <<"a", "b">>, <<"A", "B">>, << >>, <<"a", "b">> >>,
     fetish |-> << <<"E">>, <<"c", " ", "d">> >>] }

\* Texts given to the matcher.
TextPool ==
  { << >>, Clean, OneTerm, SixTerms,
    <<"a", "b", "x">>, <<"x", "a", "b">>, <<"_", "a", "b">>,
    <<"x", " ", "a", "b", " ", "y">>, <<"A", "B", " ", "a", "b">>,
    <<"x", "c", " ", "d", "x">>, <<"a", " ", "b">>, <<"U+732B">>,
    <<"a", "b", "x", " ", "x", "c", " ", "d", "x">>,
    <<"a", "U+732B", " ", "x">>, <<"U+732B", "a", "b">>,
    <<"E", " ", "e", " ", "a", "B">>, <<"b", "a", " ", "a", " ", "b">> }

\* Tier deployments: the explicit entries of control.group_policies.
PolicyMapPool ==
  { << >>, ("g1" :> "full"), ("g2" :> "none"),
    ("g1" :> "none") @@ ("g2" :> "lite") }

InitMatcher ==
  /\ lockdown = FALSE
  /\ admin_bypass_whitelist = TRUE
  /\ admin_bypass_cooldown = TRUE
  /\ admin_bypass_sensitive \in BOOLEAN
  /\ default_group_policy \in Tiers
  /\ default_private_policy \in Tiers
  /\ multi_image_mode = TRUE
  /\ lex \in LexiconPool
  /\ group_policies \in PolicyMapPool
  /\ InitRuntime

\* _check_sensitive(prompt, event) called on a text, and the matcher of
\* every tier run on the same text.  The check reads the configuration
\* only and changes nothing, so one call from each configuration shows
\* every result a later call can give.
sensitive_probe ==
  /\ ~probe.called
  /\ \E text \in TextPool, user \in Users, scope \in Scopes :
       LET r == check_sensitive(text, user, scope)
       IN probe' = [called |-> TRUE, text |-> text, user |-> user,
                    scope |-> scope, tier |-> get_policy_for_event(scope),
                    found |-> [p \in Tiers |-> Matcher(lex, text, p)],
                    ok |-> r.ok, sensitive |-> r.sensitive]
  /\ UNCHANGED <<config, group_policies, user_cooldowns, now, ev, accepted,
               attrs>>

NextMatcher == sensitive_probe

SpecMatcher == InitMatcher /\ [][NextMatcher]_vars

\* ---------------------------------------------------- tier-change command
\* Texts after the command word: none, a tier name in some casing, a tier
\* name followed by more words, other words.
LevelPool ==
  { << >>, <<" ">>, <<"n", "o", "n", "e">>, <<"L", "I", "T", "E">>,
    <<" ", "F", "u", "l", "l", " ", "x">>, <<"l", "i", "t">>,
    <<"f", "u", "l", "l", "x">> }

\* "/banlevel ..." (cmd_set_policy)
cmd_set_policy(e, U, S, A) ==
  /\ Free(e)
  /\ \E user \in U, scope \in S, msg \in A :
       LET out == set_policy(user, scope, msg)
       IN /\ ev' = [ev EXCEPT ![e] = out.rec]
          /\ group_policies' = out.gp
  /\ UNCHANGED <<config, probe, user_cooldowns, now, accepted, attrs>>

\* "/comfy帮助" (cmd_comfyui_help)
cmd_help(e, U, S) ==
  /\ Free(e)
  /\ \E user \in U, scope \in S :
       ev' = [ev EXCEPT ![e] = comfyui_help(user, scope)]
  /\ UNCHANGED <<config, probe, group_policies, user_cooldowns, now, accepted,
               attrs>>

\* The deployment of Init without lockdown, cooldown and sensitive-word
\* bypass on, the whitelist bypass on or off.
InitPolicy ==
  /\ Init
  /\ ~lockdown
  /\ admin_bypass_cooldown /\ admin_bypass_sensitive

\* Commands, paint, tool and batch actions one after the other.
NextPolicy ==
  \/ Step({"e1"}, Users, Scopes, {FullOnly}, {SegmentsB})
  \/ cmd_set_policy("e1", Users, Scopes, LevelPool)
  \/ cmd_help("e1", Users, Scopes)

SpecPolicy == InitPolicy /\ [][NextPolicy]_vars

\* ------------------------------------------------------ response segmenter
\* Completion texts of the LLM: without tag, with tags whose content is
\* unusable, with one usable prompt, with several, with an unusable tag
\* before or after the usable ones, with prompts the full tier rejects.
CompletionPool ==
  { << >>,
    <<"x">>,
    <<OpenTag, CloseTag>>,
    <<OpenTag, " ", CloseTag>>,
    <<OpenTag, "backtick", "backtick", CloseTag>>,
    <<OpenTag, Label, ":", " ", CloseTag>>,
    <<OpenTag, "x">>,
    <<"y", " ", OpenTag, "x", CloseTag, " ", "y">>,
    <<OpenTag, Label, " ", ":", " ", "backtick", "x", "backtick", CloseTag>>,
    <<OpenTag, "x", CloseTag, OpenTag, CloseTag>>,
    <<OpenTag, "x", OpenTag, "y", CloseTag, "x", CloseTag>>,
    <<OpenTag, "x", CloseTag, "y", OpenTag, "a", "b", CloseTag>>,
    <<"y", " ", OpenTag, "x", CloseTag, " ", "y", " ", OpenTag, "E", CloseTag,
      " ", "y">>,
    <<OpenTag, CloseTag, "y", OpenTag, "x", CloseTag, "x", OpenTag, "y",
      CloseTag>>,
    <<OpenTag, "x", CloseTag, OpenTag, "y", CloseTag, OpenTag, "x", CloseTag>>,
    <<OpenTag, " ", "x", " ", CloseTag, OpenTag, "backtick", CloseTag, " ", OpenTag,
      "y", CloseTag>>,
    <<OpenTag, "x", CloseTag, "y", OpenTag, "y", CloseTag, "x", OpenTag,
      CloseTag, "y">>,
    <<OpenTag, "E", CloseTag>>,
    <<"y", OpenTag, "E", CloseTag, OpenTag, "a", "b", CloseTag>> }

\* on_llm_response: _extract_prompt_before_filter runs on the completion.
llm_response(e, U, S, T) ==
  /\ Free(e)
  /\ \E user \in U, scope \in S, text \in T :
       /\ ev' = [ev EXCEPT ![e] =
                [Single("responded", "llm", user, scope, << >>)
                   EXCEPT !.completion = text,
                          !.llm = extract_prompt_before_filter(text,
                                                               multi_image_mode)]]
       /\ attrs' = [attrs EXCEPT ![e].llm =
                      extract_prompt_before_filter(text, multi_image_mode)]
  /\ UNCHANGED <<config, probe, group_policies, user_cooldowns, now, accepted>>

\* on_decorating_result: _auto_paint_from_llm runs on the event, up to its
\* first suspension (the result of the event holds no image yet).
on_decorating_result(e) ==
  /\ ev[e].pc = "responded"
  /\ LET r == ev[e]
     IN IF r.llm.segments # << >> /\ multi_image_mode
        THEN Ran(e, r.sender,
                 auto_paint_from_llm(r.sender, r.scope, r.llm.segments))
        ELSE IF r.llm.extracted # << >>
        THEN \E raw \in RawPool :
               Ran(e, r.sender,
                   comfyui_txt2img("auto", r.sender, r.scope, r.llm.extracted,
                                   raw, << >>))
        ELSE Ran(e, r.sender,
                 Outcome([r EXCEPT !.pc = "done"], user_cooldowns, FALSE))

\* The deployment of Init under the default flags, the multi-image mode on
\* or off.
InitSegment ==
  /\ lockdown = FALSE
  /\ admin_bypass_whitelist = TRUE
  /\ admin_bypass_cooldown = TRUE
  /\ admin_bypass_sensitive = TRUE
  /\ default_group_policy = "lite"
  /\ default_private_policy = "full"
  /\ multi_image_mode \in BOOLEAN
  /\ lex = lexicon
  /\ group_policies = ("g2" :> "none")
  /\ InitRuntime

\* Completions of the LLM in a private chat, segmented and auto-painted.
NextSegment ==
  \/ Tick
  \/ llm_response("e1", Users, {Private}, CompletionPool)
  \/ on_decorating_result("e1")
  \/ generate_returns("e1")
  \/ batch_generate_returns("e1")
  \/ batch_send_returns("e1")
  \/ refusal_sent("e1")
  \/ event_done("e1")

SpecSegment == InitSegment /\ [][NextSegment]_vars

\* The same with the awaited calls of the batch loop returning: a pending
\* "await self.api.generate" and a pending "await event.send" come back
\* (with a result or an exception) and the coroutine is resumed.
SpecSegmentFair ==
  /\ SpecSegment
  /\ WF_vars(batch_generate_returns("e1"))
  /\ WF_vars(batch_send_returns("e1"))

\* _auto_paint_from_llm invoked again on an event it ran on before, without
\* the test of the auto-painted flag.
on_decorating_result_unguarded(e) ==
  /\ ev[e].pc \notin {"idle", "responded"}
  /\ ev[e].kind \in {"llm", "batch", "auto"}
  /\ LET r == ev[e]
         a == attrs[e]
     IN IF a.llm.segments # << >> /\ multi_image_mode
        THEN Ran(e, r.sender,
                 auto_paint_from_llm(r.sender, r.scope, a.llm.segments))
        ELSE IF a.llm.extracted # << >>
        THEN \E raw \in RawPool :
               Ran(e, r.sender,
                   comfyui_txt2img("auto", r.sender, r.scope, a.llm.extracted,
                                   raw, << >>))
        ELSE UNCHANGED vars

\* on_decorating_result once more: the framework invokes
\* _auto_paint_from_llm again on an event it ran on before (another result
\* of the event is decorated).  With the auto-painted flag set the handler
\* returns at its first line.
on_decorating_result_again(e) ==
  /\ ev[e].pc \notin {"idle", "responded"}
  /\ ev[e].kind \in {"llm", "batch", "auto"}
  /\ LET r == ev[e]
         a == attrs[e]
     IN IF a.auto_painted
        THEN /\ attrs' = [attrs EXCEPT ![e].skipped = TRUE]
             /\ UNCHANGED <<config, probe, group_policies, user_cooldowns, now,
                            ev, accepted>>
        ELSE IF a.llm.segments # << >> /\ multi_image_mode
        THEN Ran(e, r.sender,
                 auto_paint_from_llm(r.sender, r.scope, a.llm.segments))
        ELSE IF a.llm.extracted # << >>
        THEN \E raw \in RawPool :
               Ran(e, r.sender,
                   comfyui_txt2img("auto", r.sender, r.scope, a.llm.extracted,
                                   raw, << >>))
        ELSE UNCHANGED vars

\* Completions segmented and auto-painted, the handler invoked on an event
\* any number of times.
NextAgain ==
  \/ NextSegment
  \/ on_decorating_result_again("e1")

SpecAgain == InitSegment /\ [][NextAgain]_vars

\* Concurrent events of the users, in a private chat, under the default
\* flags of the configuration (no lockdown, every admin bypass on).
InitRace ==
  /\ Init
  /\ ~lockdown
  /\ admin_bypass_whitelist /\ admin_bypass_cooldown /\ admin_bypass_sensitive

NextRace == Step(EventIds, Users, {Private}, {Clean}, {SegmentsA})

SpecRace == InitRace /\ [][NextRace]_vars

\* A batch in group g1 on one event while tier-change commands for g1 are
\* handled on another, under the default flags: the handlers interleave at
\* the awaits of the batch.  The batch holds the same prompt twice, one the
\* full tier rejects and the lite tier accepts.
SegmentsC ==
  << Text("prompt", FullOnly), Text("text", <<"y">>),
     Text("prompt", FullOnly) >>

\* The commands sent meanwhile: the three tiers and an invalid level.
TierChanges ==
  { <<"n", "o", "n", "e">>, <<"L", "I", "T", "E">>,
    <<" ", "F", "u", "l", "l", " ", "x">>, <<"l", "i", "t">> }

NextTier ==
  \/ Tick
  \/ auto_paint("e1", {"usr"}, {Group("g1")}, {SegmentsB, SegmentsC})
  \/ batch_generate_returns("e1")
  \/ batch_send_returns("e1")
  \/ refusal_sent("e1")
  \/ cmd_set_policy("e2", Users, {Group("g1")}, TierChanges)
  \/ \E e \in EventIds : event_done(e)

SpecTier == InitRace /\ [][NextTier]_vars

\* ----------------------------------------------------------------- claims
\* Positions of the entries of kind op in a trace.
Idx(tr, op) == {k \in 1..Len(tr) : tr[k].op = op}

\* A handler starts on event e in this step.
Started(e) == ev[e].pc = "idle" /\ ev'[e].pc # "idle"

IsAdmin(u) == u \in admin_user_ids

\* The tier of a scope: the group's entry of the map when there is one,
\* else the default of the scope's type.
ResolvedTier(scope) ==
  IF scope.group
  THEN IF scope.gid # "" /\ scope.gid \in DOMAIN group_policies
       THEN group_policies[scope.gid] ELSE default_group_policy
  ELSE default_private_policy

\* The prompts of the first n pairs that carry one, in order.
RECURSIVE PromptsUpTo(_, _)
PromptsUpTo(pairs, n) ==
  IF n = 0 THEN << >>
  ELSE IF pairs[n].prompt # << >>
  THEN Append(PromptsUpTo(pairs, n - 1), pairs[n].prompt)
  ELSE PromptsUpTo(pairs, n - 1)

\* C1: a call api.generate(p) is preceded, in the same action, by a passed
\* access check, a passed cooldown check and a passed sensitive-word check
\* of p itself, and by no failed check of the action or of p.
GateBefore(tr, k) ==
  /\ \E i \in 1..(k - 1) : tr[i].op = "access" /\ tr[i].ok
  /\ \E i \in 1..(k - 1) : tr[i].op = "cooldown" /\ tr[i].ok
  /\ \E i \in 1..(k - 1) : tr[i].op = "sensitive" /\ tr[i].p = tr[k].p /\ tr[i].ok
  /\ \A i \in 1..(k - 1) : tr[i].op \in {"access", "cooldown"} => tr[i].ok
  /\ \A i \in 1..(k - 1) : (tr[i].op = "sensitive" /\ tr[i].p = tr[k].p) => tr[i].ok

C1_GenerateOnlyAfterChecks ==
  \A e \in EventIds :
    \A k \in Idx(ev[e].trace, "generate") : GateBefore(ev[e].trace, k)

\* A batch of a plain user whose second prompt is with the backend.
C1_Witness ==
  \E e \in EventIds :
    /\ ev[e].kind = "batch" /\ ev[e].sender = "usr"
    /\ Cardinality(Idx(ev[e].trace, "generate")) = 2
    /\ ev[e].pc = "generating"

\* C2: under lockdown an action of a non-administrator ends at the access
\* check with the lockdown reason, whatever its scope: no cooldown check, no
\* write of the cooldown map, no sensitive-word check, no backend call; and
\* no administrator is refused for lockdown.
C2_Step(e) ==
  LET r == ev'[e]
      tr == r.trace
  IN /\ (lockdown /\ ~IsAdmin(r.sender)) =>
          /\ r.pc = "done"
          /\ tr[1].op = "access" /\ ~tr[1].ok /\ tr[1].why = "lockdown"
          /\ Idx(tr, "access") = {1}
          /\ Idx(tr, "cooldown") = {}
          /\ Idx(tr, "sensitive") = {}
          /\ Idx(tr, "generate") = {}
          /\ user_cooldowns' = user_cooldowns
     /\ IsAdmin(r.sender) =>
          \A k \in Idx(tr, "access") : tr[k].why # "lockdown"

C2_LockdownShortCircuits ==
  [][\A e \in EventIds : Started(e) => C2_Step(e)]_vars

\* Under lockdown, a non-administrator in a group outside the whitelist was
\* refused for the lockdown.
C2_Witness ==
  \E e \in EventIds :
    /\ lockdown /\ ev[e].sender = "usr" /\ ev[e].scope = Group("g2")
    /\ ev[e].pc = "done" /\ ev[e].trace[1].why = "lockdown"

\* C3: for a sender the lockdown lets through, an action in a group outside
\* the whitelist passes the access check exactly when the sender is an
\* administrator and the whitelist bypass is on; an action in a whitelisted
\* group or a private chat always passes it.
C3_WhitelistCheck ==
  \A e \in EventIds :
    LET r == ev[e]
        tr == r.trace
    IN \A k \in Idx(tr, "access") :
         ~(lockdown /\ ~IsAdmin(r.sender)) =>
           /\ (r.scope.group /\ r.scope.gid # ""
                 /\ r.scope.gid \notin whitelist_group_ids)
                => (tr[k].ok <=> (IsAdmin(r.sender) /\ admin_bypass_whitelist))
           /\ (~r.scope.group \/ r.scope.gid \in whitelist_group_ids)
                => tr[k].ok
           /\ (~tr[k].ok /\ r.scope.gid # "") => tr[k].why = "not_whitelisted"

\* An administrator refused in a group outside the whitelist, bypass off.
C3_Witness ==
  \E e \in EventIds :
    /\ ev[e].sender = "adm" /\ ev[e].scope = Group("g2")
    /\ ~admin_bypass_whitelist
    /\ ev[e].pc = "done" /\ ev[e].trace[1].why = "not_whitelisted"

\* C4: for a sender without cooldown bypass, the cooldown check at time t
\* fails exactly when t - L < D (L the stored time, 0 without entry); a
\* failed check returns int(D - (t - L)) seconds and leaves the map as it
\* was, a passed one sets the sender's entry to t.
C4_Step(e) ==
  LET r == ev'[e]
      tr == r.trace
      u == r.sender
      limit == cooldown_seconds * TicksPerSecond
      elapsed == now - (IF u \in DOMAIN user_cooldowns THEN user_cooldowns[u] ELSE 0)
  IN \A k \in Idx(tr, "cooldown") :
       ~(IsAdmin(u) /\ admin_bypass_cooldown) =>
         /\ ~tr[k].ok <=> elapsed < limit
         /\ ~tr[k].ok =>
              /\ tr[k].n = (limit - elapsed) \div TicksPerSecond
              /\ tr[k].n * TicksPerSecond <= limit - elapsed
              /\ user_cooldowns' = user_cooldowns
         /\ tr[k].ok =>
              /\ DOMAIN user_cooldowns' = DOMAIN user_cooldowns \cup {u}
              /\ user_cooldowns'[u] = now
              /\ \A v \in DOMAIN user_cooldowns \ {u} :
                   user_cooldowns'[v] = user_cooldowns[v]

C4_CooldownCheck ==
  [][\A e \in EventIds : Started(e) => C4_Step(e)]_vars

\* A sender refused half a second into the cooldown: the remaining time is
\* truncated.
C4_Witness ==
  \E e \in EventIds :
    LET tr == ev[e].trace
    IN \E k \in Idx(tr, "cooldown") :
         /\ ~tr[k].ok
         /\ ev[e].sender \in DOMAIN user_cooldowns
         /\ now - user_cooldowns[ev[e].sender] = 1
         /\ tr[k].n * TicksPerSecond < cooldown_seconds * TicksPerSecond - 1

\* C5: any two cooldown checks of one user that passed without bypass are
\* at least the cooldown duration apart, whatever the interleaving of the
\* user's actions.
C5_AcceptedApart ==
  \A u \in Users :
    /\ ~accepted[u].close
    /\ accepted[u].n > 0 =>
         u \in DOMAIN user_cooldowns /\ user_cooldowns[u] = accepted[u].last

\* Two actions of the user at the same time: one is waiting for the
\* backend, the other was refused by the cooldown check.
C5_Witness ==
  \E e1 \in EventIds, e2 \in EventIds :
    /\ e1 # e2
    /\ ev[e1].sender = "usr" /\ ev[e2].sender = "usr"
    /\ ev[e1].pc = "generating"
    /\ accepted["usr"].n = 2 /\ accepted["usr"].last = now
    /\ \E k \in Idx(ev[e2].trace, "cooldown") : ~ev[e2].trace[k].ok

\* C6: with the cooldown bypass on, every cooldown check of an administrator
\* passes and the cooldown map never holds an entry for an administrator.
C6_AdminBypass ==
  admin_bypass_cooldown =>
    /\ \A u \in admin_user_ids : u \notin DOMAIN user_cooldowns
    /\ \A e \in EventIds :
         IsAdmin(ev[e].sender) =>
           \A k \in Idx(ev[e].trace, "cooldown") : ev[e].trace[k].ok

\* Two actions of the administrator accepted at time 0, no time between them.
C6_Witness ==
  \E e1 \in EventIds, e2 \in EventIds :
    /\ e1 # e2 /\ now = 0 /\ admin_bypass_cooldown
    /\ ev[e1].sender = "adm" /\ ev[e2].sender = "adm"
    /\ ev[e1].pc = "generating" /\ ev[e2].pc = "generating"

\* C7: in one action the cooldown check is evaluated at most once, before
\* any backend call, and nothing is refused for cooldown after it passed; a
\* batch that passed it checks every prompt it carries; and the cooldown map
\* changes only in the step that evaluates the one check of an action.
C7_OnePerAction ==
  \A e \in EventIds :
    LET r == ev[e]
        tr == r.trace
    IN /\ Cardinality(Idx(tr, "cooldown")) <= 1
       /\ \A c \in Idx(tr, "cooldown") :
            /\ \A g \in Idx(tr, "generate") : c < g
            /\ tr[c].ok =>
                 \A k \in (c + 1)..Len(tr) :
                   ~(tr[k].op = "emit" /\ tr[k].why = "cooldown")
            /\ (tr[c].ok /\ r.kind = "batch" /\ r.pc = "done") =>
                 Cardinality(Idx(tr, "sensitive"))
                   = Len(PromptsUpTo(r.pairs, Len(r.pairs)))

C7_WriteStep ==
  user_cooldowns' # user_cooldowns =>
    \E e \in EventIds :
      /\ Started(e)
      /\ Cardinality(Idx(ev'[e].trace, "cooldown")) = 1
      /\ \A v \in DOMAIN user_cooldowns' :
           v # ev'[e].sender =>
             v \in DOMAIN user_cooldowns /\ user_cooldowns'[v] = user_cooldowns[v]

C7_CooldownOncePerAction == [](C7_OnePerAction) /\ [][C7_WriteStep]_vars

\* A finished batch of a user without bypass: two images generated, one
\* cooldown check, which stored the time.
C7_Witness ==
  \E e \in EventIds :
    LET tr == ev[e].trace
    IN /\ ev[e].kind = "batch" /\ ev[e].pc = "done"
       /\ Cardinality(Idx(tr, "generate")) = 2
       /\ \E c \in Idx(tr, "cooldown") : tr[c].ok /\ tr[c].why = "write"
       /\ ev[e].sender \in DOMAIN user_cooldowns

\* C8: in a batch that passed the access and cooldown checks, the
\* sensitive-word checks evaluated so far are, in order, one for each prompt
\* of the pairs reached so far, each of the pair's own prompt; a prompt is
\* passed exactly when its own text matches nothing (or the sender is
\* bypassed), and the prompts sent to the backend are exactly the passed
\* ones, each right after its check.
C8_Batch(r) ==
  LET tr == r.trace
      reached == IF r.pc = "done" THEN Len(r.pairs) ELSE r.idx
      ps == PromptsUpTo(r.pairs, reached)
      ss == SelectSeq(tr, LAMBDA x : x.op = "sensitive")
      byp == IsAdmin(r.sender) /\ admin_bypass_sensitive
  IN /\ Len(ss) = Len(ps)
     /\ \A j \in 1..Len(ss) :
          /\ ss[j].p = ps[j]
          /\ ss[j].ok <=>
               (Matcher(lex, ps[j], ResolvedTier(r.scope)) = << >> \/ byp)
     /\ \A k \in Idx(tr, "sensitive") :
          tr[k].ok <=> (k < Len(tr) /\ tr[k + 1].op = "generate"
                                     /\ tr[k + 1].p = tr[k].p)
     /\ \A k \in Idx(tr, "generate") :
          tr[k - 1].op = "sensitive" /\ tr[k - 1].p = tr[k].p /\ tr[k - 1].ok

C8_PerPromptCheck ==
  \A e \in EventIds :
    (/\ ev[e].kind = "batch"
     /\ \E c \in Idx(ev[e].trace, "cooldown") : ev[e].trace[c].ok)
      => C8_Batch(ev[e])

\* A batch in which a prompt was refused and a later one is generated.
C8_Witness ==
  \E e \in EventIds :
    LET tr == ev[e].trace
    IN /\ ev[e].kind = "batch"
       /\ \E k \in Idx(tr, "sensitive"), g \in Idx(tr, "generate") :
            ~tr[k].ok /\ k < g

\* C9: a sensitive-word check passes exactly when the matcher of the tier
\* resolved for the action's scope reports no term for the prompt or the
\* sender is an administrator with the sensitive-word bypass on; a failed
\* check returns the matcher's terms; no prompt with a matched term is sent
\* to the backend for any other sender.
C9_SensitiveCheck ==
  \A e \in EventIds :
    LET r == ev[e]
        tr == r.trace
        tier == ResolvedTier(r.scope)
        byp == IsAdmin(r.sender) /\ admin_bypass_sensitive
    IN /\ \A k \in Idx(tr, "sensitive") :
            /\ tr[k].ok <=> (Matcher(lex, tr[k].p, tier) = << >> \/ byp)
            /\ ~tr[k].ok => tr[k].terms = Matcher(lex, tr[k].p, tier)
       /\ \A g \in Idx(tr, "generate") :
            Matcher(lex, tr[g].p, tier) # << >> => byp

\* A bypassed administrator whose prompt with six matched terms is with the
\* backend.
C9_Witness ==
  \E e \in EventIds :
    /\ ev[e].sender = "adm" /\ admin_bypass_sensitive
    /\ ev[e].pc = "generating"
    /\ ev[e].scope = Private
    /\ LastGenerated(e) = SixTerms

\* C10: the message for a prompt refused with m matched terms lists the
\* first min(m, 5) of them, in match order, and for m > 5 states m - 5.
C10_RejectionMessage ==
  \A e \in EventIds :
    LET tr == ev[e].trace
    IN \A k \in Idx(tr, "sensitive") :
         ~tr[k].ok =>
           LET m == Len(tr[k].terms)
               msg == tr[k + 1]
           IN /\ msg.op = "emit" /\ msg.why = "sensitive"
              /\ msg.terms = Take(tr[k].terms, 5)
              /\ m > 5 => msg.n = m - 5

\* ------------------------------------------- claims on resolver and matcher
\* The terms of the loaded lexicon, of every category key it has.
LexiconTerms(l) ==
  UNION {{l[cat][k] : k \in 1..Len(l[cat])} : cat \in DOMAIN l}

\* term occurs in text at position pos, letter case aside.
TermAt(text, pos, term) ==
  /\ term # << >>
  /\ pos >= 1 /\ pos + Len(term) - 1 <= Len(text)
  /\ \A k \in 1..Len(term) : Lower(text[pos + k - 1]) = Lower(term[k])

TermIn(text, term) == \E pos \in 1..Len(text) : TermAt(text, pos, term)

IsAsciiText(t) == \A k \in 1..Len(t) : t[k] \notin NonAsciiChars
Folded(t) == [k \in 1..Len(t) |-> Lower(t[k])]
Reported(r, term) == \E j \in 1..Len(r) : Folded(r[j]) = Folded(term)

\* Neither neighbour of text[pos .. pos + n - 1] is a letter, digit or
\* underscore.
Bounded(text, pos, n) ==
  /\ (pos = 1 \/ text[pos - 1] \notin WordChars)
  /\ (pos + n - 1 = Len(text) \/ text[pos + n] \notin WordChars)

\* C11: the tier resolved for a group with identifier g is the entry of
\* the map for g when there is one and the default group tier otherwise;
\* for a private chat it is the default private tier, whatever the map
\* holds.
C11_ResolveTier ==
  probe.called =>
    LET sc == probe.scope
    IN /\ (sc.group /\ sc.gid # "" /\ sc.gid \in DOMAIN group_policies)
            => probe.tier = group_policies[sc.gid]
       /\ (sc.group /\ sc.gid # "" /\ sc.gid \notin DOMAIN group_policies)
            => probe.tier = default_group_policy
       /\ ~sc.group => probe.tier = default_private_policy

\* A group whose entry differs from the default group tier, resolved.
C11_Witness ==
  /\ probe.called /\ probe.scope = Group("g1")
  /\ "g1" \in DOMAIN group_policies
  /\ group_policies["g1"] # default_group_policy
  /\ probe.tier = group_policies["g1"]

\* C14: for every lexicon and text, when the lite matcher reports a term the
\* full matcher reports one too, and the none matcher reports nothing.
C14_TierMonotone ==
  probe.called =>
    /\ probe.found["lite"] # << >> => probe.found["full"] # << >>
    /\ probe.found["none"] = << >>

\* The lite matcher reports a term the full matcher does not report: the
\* full matcher found a phrase over it.
C14_Witness ==
  /\ probe.called
  /\ \E k \in 1..Len(probe.found["lite"]) :
       ~Reported(probe.found["full"], probe.found["lite"][k])
  /\ probe.found["full"] # << >>

\* C15: every ASCII term listed under any category key of the loaded
\* lexicon is reported by the full matcher for a text that consists of it.
C15_FullIsUnion ==
  probe.called =>
    \A t \in LexiconTerms(lex) :
      (t # << >> /\ IsAsciiText(t) /\ Folded(probe.text) = Folded(t))
        => Reported(probe.found["full"], t)

\* C16: the none matcher reports nothing for any text and lexicon, and the
\* sensitive-word check of a scope resolved to none passes for every user.
C16_NoneMatchesNothing ==
  probe.called =>
    /\ probe.found["none"] = << >>
    /\ probe.tier = "none" => (probe.ok /\ probe.sensitive = << >>)

\* A plain user's text with terms of the full tier, passed in a scope
\* resolved to none.
C16_Witness ==
  /\ probe.called /\ probe.user = "usr" /\ probe.tier = "none"
  /\ probe.found["full"] # << >> /\ probe.found["lite"] # << >>
  /\ probe.ok

\* C17: a reported term without a space stands in the text between
\* characters that are not letters, digits or underscores; a term with a
\* space is reported wherever it stands when no other term stands in the
\* text, whatever its neighbours.
C17_TermsOf(p) ==
  {t \in UNION {{LexiconGet(lex, cat)[k] : k \in 1..Len(LexiconGet(lex, cat))} :
                  cat \in policies[p]} : t # << >> /\ IsAsciiText(t)}

C18_FirstOf(ms, w) ==
  CHOOSE k \in 1..Len(ms) :
    /\ Folded(ms[k]) = Folded(w)
    /\ \A i \in 1..(k - 1) : Folded(ms[i]) # Folded(w)

C18_DistinctInOrder ==
  probe.called =>
    \A p \in Tiers :
      LET r == probe.found[p]
          ms == FindIter(probe.text, 1, build_policy_pattern(lex, p))
      IN /\ \A i \in 1..Len(r), j \in 1..Len(r) :
              i # j => Folded(r[i]) # Folded(r[j])
         /\ p # "none" => \A k \in 1..Len(ms) : Reported(r, ms[k])
         /\ \A j \in 1..Len(r) :
              /\ \E k \in 1..Len(ms) : Folded(ms[k]) = Folded(r[j])
              /\ ms[C18_FirstOf(ms, r[j])] = r[j]
         /\ \A i \in 1..Len(r), j \in 1..Len(r) :
              i < j => C18_FirstOf(ms, r[i]) < C18_FirstOf(ms, r[j])

\* "AB ab" with the term ab: one report, AB.
C18_Witness ==
  /\ probe.called
  /\ probe.text = <<"A", "B", " ", "a", "b">>
  /\ probe.found["lite"] = << <<"A", "B">> >>

\* C19: a lexicon term with a non-ASCII character is reported by no tier,
\* and a text in which only such terms stand is reported clean by every
\* tier and passes the sensitive-word check.
C19_NonAsciiExcluded ==
  probe.called =>
    /\ \A p \in Tiers : \A t \in LexiconTerms(lex) :
         ~IsAsciiText(t) => ~Reported(probe.found[p], t)
    /\ (\A t \in LexiconTerms(lex) : (IsAsciiText(t) => ~TermIn(probe.text, t)))
         => /\ \A p \in Tiers : probe.found[p] = << >>
            /\ probe.ok

\* A text holding a non-ASCII term of the lite tier verbatim passes the
\* check of a plain user under that tier.
C19_Witness ==
  /\ probe.called /\ probe.user = "usr" /\ probe.tier = "lite"
  /\ <<"U+732B">> \in {LexiconGet(lex, "legacy_lite")[k] :
                         k \in 1..Len(LexiconGet(lex, "legacy_lite"))}
  /\ TermIn(probe.text, <<"U+732B">>)
  /\ probe.ok /\ probe.found["full"] = << >>

\* --------------------------------------------- claims on the tier command
TierNames == {TierText[p] : p \in Tiers}

\* The level a tier-change command carries: its first word, lower-cased
\* (no word: the empty text).
LevelOf(msg) ==
  LET words == Split(msg)
  IN IF words = << >> THEN << >> ELSE Folded(words[1])

LastEntry(tr) == tr[Len(tr)]

\* The tier map after the entry of group g is set to the tier named level.
WithEntry(gp, g, level) ==
  [x \in DOMAIN gp \cup {g} |->
     IF x = g THEN CHOOSE p \in Tiers : TierText[p] = level ELSE gp[x]]

\* The command of event e is one of an administrator, in a group, let
\* through by the access check.
Admitted(r) ==
  /\ IsAdmin(r.sender) /\ r.scope.group
  /\ r.trace[2].op = "access" /\ r.trace[2].ok

\* A valid level from an admitted administrator in a group sets exactly the
\* group's entry to the lower-cased name.
C12_ValidSets(r) ==
  (LevelOf(r.trace[1].p) \in TierNames /\ Admitted(r)) =>
     /\ group_policies' = WithEntry(group_policies, r.scope.gid,
                                    LevelOf(r.trace[1].p))
     /\ LastEntry(r.trace).why = "set"
     /\ LastEntry(r.trace).text = LevelOf(r.trace[1].p)

\* An argument that names no tier is answered by the error listing the
\* three tiers.
C12_InvalidListed(r) ==
  LastEntry(r.trace) =
    Emit("invalid_level",
         << <<"n", "o", "n", "e">>, <<"l", "i", "t", "e">>,
            <<"f", "u", "l", "l">> >>, << >>, 0)

\* C12 as stated: every tier-change command whose argument is not one of
\* none, lite, full (letter case aside) is answered by the error listing the
\* three values and leaves the tier map unchanged; a valid name from an
\* admitted administrator in a group sets exactly that group's entry.
C12_AsStated ==
  [][\A e \in EventIds :
       (Started(e) /\ ev'[e].kind = "policy") =>
         LET r == ev'[e]
         IN /\ (Split(r.trace[1].p) # << >>
                  /\ LevelOf(r.trace[1].p) \notin TierNames)
                 => (C12_InvalidListed(r) /\ group_policies' = group_policies)
            /\ C12_ValidSets(r)]_vars

\* C12, amended: the error listing the three values answers such a command
\* of an admitted administrator in a group; whoever sends it, the tier map
\* stays unchanged; a valid name from an admitted administrator in a group
\* sets exactly that group's entry.
C12_TierCommand ==
  [][\A e \in EventIds :
       (Started(e) /\ ev'[e].kind = "policy") =>
         LET r == ev'[e]
         IN /\ (Split(r.trace[1].p) # << >>
                  /\ LevelOf(r.trace[1].p) \notin TierNames)
                 => /\ group_policies' = group_policies
                    /\ Admitted(r) => C12_InvalidListed(r)
            /\ C12_ValidSets(r)]_vars

\* The administrator's "LITE" set the entry of g1 to lite.
C12_Witness ==
  \E e \in EventIds :
    /\ ev[e].kind = "policy" /\ ev[e].sender = "adm"
    /\ ev[e].scope = Group("g1")
    /\ ev[e].trace[1].p = <<"L", "I", "T", "E">>
    /\ LastEntry(ev[e].trace).why = "set"
    /\ "g1" \in DOMAIN group_policies /\ group_policies["g1"] = "lite"

\* C13: the tier map changes only in the step of a tier-change command of a
\* member of the admin set, in a group, let through by the access check and
\* answered as set, and then only in the entry of that group; in every other
\* step (other commands, paint, tool, batch, help, time passing) an entry
\* stays as it is and the group resolves to it.
C13_SetFor(e, g) ==
  /\ Started(e) /\ ev'[e].kind = "policy"
  /\ Admitted(ev'[e]) /\ ev'[e].scope.gid = g
  /\ LastEntry(ev'[e].trace).why = "set"

C13_OnlyAdminCommand ==
  [][/\ \A g \in DOMAIN group_policies :
          (~\E e \in EventIds : C13_SetFor(e, g)) =>
             /\ g \in DOMAIN group_policies'
             /\ group_policies'[g] = group_policies[g]
             /\ get_policy_for_event(Group(g))' = group_policies[g]
     /\ \A g \in DOMAIN group_policies' \ DOMAIN group_policies :
          \E e \in EventIds : C13_SetFor(e, g)]_vars

\* The entry of g1, set to full, decides the check of a plain user's prompt
\* two cooldown periods later.
C13_Witness ==
  \E e \in EventIds :
    /\ "g1" \in DOMAIN group_policies /\ group_policies["g1"] = "full"
    /\ now = MaxTime
    /\ ev[e].sender = "usr" /\ ev[e].scope = Group("g1")
    /\ \E k \in Idx(ev[e].trace, "sensitive") :
         ev[e].trace[k].why = "full" /\ ~ev[e].trace[k].ok

\* ------------------------------------------------- claims on the segmenter
\* C20: with k the number of usable prompts of a completion: k = 0 sets
\* neither the extracted prompt nor the segment list; k = 1 sets the
\* extracted prompt to it and no segment list, the multi-image mode on or
\* off; k > 1 with the mode off sets the extracted prompt to the first
\* usable prompt, no segment list, and logs the warning; the two are never
\* both set.
C20_ResultKind ==
  \A e \in EventIds :
    ev[e].pc = "responded" =>
      LET usable == cleaned_prompts(ev[e].completion)
          k == Len(usable)
          got == ev[e].llm
      IN /\ k = 0 => (got.extracted = << >> /\ got.segments = << >>)
         /\ k = 1 => (got.extracted = usable[1] /\ got.segments = << >>)
         /\ (k > 1 /\ ~multi_image_mode) =>
               /\ got.extracted = usable[1]
               /\ got.segments = << >>
               /\ got.warned
         /\ ~(got.extracted # << >> /\ got.segments # << >>)

\* Three tags, two usable prompts, mode off: the first usable prompt alone,
\* with the warning.
C20_Witness ==
  \E e \in EventIds :
    /\ ev[e].pc = "responded" /\ ~multi_image_mode
    /\ Len(FindAll(ev[e].completion, 1)) = 3
    /\ Len(cleaned_prompts(ev[e].completion)) = 2
    /\ ev[e].llm = Extraction(<<"x">>, << >>, TRUE)

\* ---------------------------------------- claims on segments and pairs
\* The contents of the segments of one type, in order.
ContentsOf(segments, type) ==
  LET sel == SelectSeq(segments, LAMBDA s : s.type = type)
  IN [i \in 1..Len(sel) |-> sel[i].content]

\* The positions of the segments of one type, in order.
PositionsOf(segments, type) ==
  SelectSeq([i \in 1..Len(segments) |-> i],
            LAMBDA i : segments[i].type = type)

\* The trimmed chunks between the tags of a completion, in order.
TrimmedChunks(text) ==
  LET parts == SplitOnTags(text, 1)
  IN [i \in 1..Len(parts) |-> Strip(parts[i])]

\* The non-empty ones among the trimmed chunks, in order.
NarrativeChunks(text) ==
  SelectSeq(TrimmedChunks(text), LAMBDA c : c # << >>)

\* C21: with the multi-image mode on and k > 1 usable prompts, the segment
\* list holds exactly k prompt segments, whose contents are the usable
\* prompts in their order, and its text segments are exactly the non-empty
\* trimmed chunks between the tags, in their order.
C21_SegmentsComplete ==
  \A e \in EventIds :
    (/\ ev[e].pc = "responded"
     /\ multi_image_mode
     /\ Len(cleaned_prompts(ev[e].completion)) > 1) =>
      /\ ContentsOf(ev[e].llm.segments, "prompt")
           = cleaned_prompts(ev[e].completion)
      /\ ContentsOf(ev[e].llm.segments, "text")
           = NarrativeChunks(ev[e].completion)
      /\ \A i \in 1..Len(ev[e].llm.segments) :
           ev[e].llm.segments[i].type \in {"text", "prompt"}

\* Two usable prompts with text before, between and after them.
C21_Witness ==
  \E e \in EventIds :
    /\ ev[e].pc = "responded" /\ multi_image_mode
    /\ Len(cleaned_prompts(ev[e].completion)) = 2
    /\ Len(NarrativeChunks(ev[e].completion)) = 3
    /\ Len(ev[e].llm.segments) = 5

\* C22: for every completion the segment list alternates: no two text
\* segments are adjacent.
C22_Alternating ==
  \A e \in EventIds :
    ev[e].pc = "responded" =>
      \A i \in 1..(Len(ev[e].llm.segments) - 1) :
        ~(/\ ev[e].llm.segments[i].type = "text"
          /\ ev[e].llm.segments[i + 1].type = "text")

\* C23: the re-pairing of a segment list: the pairs with a prompt are the
\* prompt segments in order; the text of such a pair is the content of the
\* text segment right before its prompt segment, empty when a prompt
\* segment or nothing stands there; a last pair without prompt exists
\* exactly when the list ends in a text segment, and carries its content.
C23_Step(e) ==
  (/\ ev[e].pc = "responded"
   /\ ev'[e].kind = "batch"
   /\ ev'[e].trace[1].ok) =>
    LET segs == ev[e].llm.segments
        pairs == ev'[e].pairs
        at == PositionsOf(segs, "prompt")
        n == Len(at)
        endsInText == segs # << >> /\ segs[Len(segs)].type = "text"
    IN /\ Len(pairs) = IF endsInText THEN n + 1 ELSE n
       /\ \A j \in 1..n :
            /\ pairs[j].prompt = segs[at[j]].content
            /\ pairs[j].prompt # << >>
            /\ pairs[j].text =
                 IF at[j] > 1 /\ segs[at[j] - 1].type = "text"
                 THEN segs[at[j] - 1].content
                 ELSE << >>
       /\ endsInText =>
            pairs[n + 1] = Pair(segs[Len(segs)].content, << >>)

C23_RePairing == [][\A e \in EventIds : C23_Step(e)]_vars

\* The batch of [text, prompt, text, prompt, text]: two pairs with their
\* texts and a last pair of text alone.
C23_Witness ==
  \E e \in EventIds :
    /\ ev[e].kind = "batch"
    /\ ev[e].pairs = << Pair(<<"y">>, <<"x">>), Pair(<<"y">>, <<"E">>),
                        Pair(<<"y">>, << >>) >>

\* ------------------------------------------------- claims on the batch
\* A batch past its access check and its cooldown check.
InBatch(r) ==
  /\ r.kind = "batch"
  /\ Len(r.trace) >= 2
  /\ r.trace[1].ok /\ r.trace[2].ok

\* The entries that open the processing of a pair: the sensitive-word check
\* of its prompt, or the sending of a text without prompt.
Starts(tr) ==
  SelectSeq(tr, LAMBDA x : x.op = "sensitive"
                           \/ (x.op = "emit" /\ x.why = "text"))

\* Pairs 1..idx of the batch have been opened, each once, in order.
C24_Order(r) ==
  LET st == Starts(r.trace)
      n == IF r.idx < Len(r.pairs) THEN r.idx ELSE Len(r.pairs)
  IN /\ Len(st) = n
     /\ \A k \in 1..n :
          IF r.pairs[k].prompt # << >>
          THEN st[k].op = "sensitive" /\ st[k].p = r.pairs[k].prompt
          ELSE st[k].op = "emit" /\ st[k].text = r.pairs[k].text
     /\ r.pc = "done" => r.idx = Len(r.pairs) + 1

\* The pair in progress ends, however it ends, and the next one is opened
\* in the same step; no pair is opened while another is in progress.
C24_Step(e) ==
  (InBatch(ev[e]) /\ ev[e].pc \in {"generating", "sending"}
     /\ ev'[e] # ev[e]) =>
    /\ InBatch(ev'[e])
    /\ ev'[e].pairs = ev[e].pairs
    /\ ev'[e].idx \in {ev[e].idx, ev[e].idx + 1}
    /\ ev'[e].idx = ev[e].idx =>
         (ev[e].pc = "generating" /\ ev'[e].pc = "sending")
    /\ C24_Order(ev'[e])

\* C24: in a batch that passed the access and cooldown checks every pair
\* is processed exactly once and in order, pair i+1 starts only after pair
\* i has ended, a rejection, an empty result or an exception for a pair
\* does not keep the later pairs from being processed, and the batch
\* always reaches its end.
C24_BatchRunsThrough ==
  /\ [][\A e \in EventIds : C24_Step(e)]_vars
  /\ \A e \in EventIds :
       (InBatch(ev[e]) /\ ev[e].pc \in {"generating", "sending"})
         ~> (InBatch(ev[e]) /\ ev[e].pc = "done"
               /\ ev[e].idx = Len(ev[e].pairs) + 1)

\* A finished batch of three pairs whose second prompt was rejected and
\* whose first generation ended in an exception or in an image.
C24_Witness ==
  \E e \in EventIds :
    /\ InBatch(ev[e]) /\ ev[e].pc = "done"
    /\ Len(ev[e].pairs) = 3
    /\ Len(Starts(ev[e].trace)) = 3
    /\ \E k \in Idx(ev[e].trace, "sensitive") : ~ev[e].trace[k].ok
    /\ \E k \in Idx(ev[e].trace, "generate") :
         ev[e].trace[k + 1].op = "sensitive"

\* The pair whose processing the k-th entry of a batch trace belongs to.
PairOf(r, k) == r.pairs[Len(Starts(SubSeq(r.trace, 1, k)))]

\* C25: whenever the image of a batch pair cannot be produced (its prompt
\* is rejected, the backend returns no data, the backend call raises), a
\* message with the pair's text and a failure notice is sent before the
\* loop moves on: the text of a failing pair is never dropped.
C25_FailureNotice ==
  \A e \in EventIds :
    InBatch(ev[e]) =>
      LET r == ev[e]
          tr == r.trace
      IN /\ \A k \in Idx(tr, "sensitive") :
              ~tr[k].ok =>
                /\ tr[k + 1].op = "emit" /\ tr[k + 1].why = "sensitive"
                /\ tr[k + 1].text = PairOf(r, k).text
         /\ \A k \in Idx(tr, "generate") :
              (k < Len(tr) \/ r.pc = "done") =>
                /\ k < Len(tr)
                /\ tr[k + 1].op = "emit"
                /\ tr[k + 1].why \in {"image", "gen_failed"}
                /\ tr[k + 1].text = PairOf(r, k).text

\* C26: on every path a failed lockdown, whitelist, cooldown or content
\* check is followed by a message to the user; no failed check ends an
\* action unreported.
C26_FailureSurfaced ==
  \A e \in EventIds :
    \A k \in 1..Len(ev[e].trace) :
      (ev[e].trace[k].op \in {"access", "cooldown", "sensitive"}
         /\ ~ev[e].trace[k].ok) =>
        /\ k < Len(ev[e].trace)
        /\ ev[e].trace[k + 1].op = "emit"
        /\ ev[e].trace[k + 1].why
             \in {"lockdown", "no_gid", "not_whitelisted", "cooldown",
                  "sensitive"}

\* A handler runs its checks on event e in this step.
ChecksRun(e) ==
  /\ ev[e].pc \in {"idle", "responded"}
  /\ ev'[e].pc # "idle"
  /\ ev'[e].trace # << >>

\* The order of the checks of the handler that ran, and what became of the
\* cooldown map.
C27_Step(e) ==
  LET r == ev'[e]
      tr == r.trace
      S == Idx(tr, "sensitive")
      C == Idx(tr, "cooldown")
  IN IF r.kind = "batch"
     THEN /\ \A c \in C, s \in S : c < s
          /\ \A c \in C :
               tr[c].why = "write" =>
                 /\ r.sender \in DOMAIN user_cooldowns'
                 /\ user_cooldowns'[r.sender] = now
     ELSE /\ \A c \in C, s \in S : s < c
          /\ (\E s \in S : ~tr[s].ok) =>
               (C = {} /\ user_cooldowns' = user_cooldowns)

\* A batch keeps the charge of its cooldown check whatever becomes of its
\* prompts.
C27_Kept(e) ==
  (ev[e].kind = "batch" /\ ev'[e].kind = "batch") =>
    user_cooldowns' = user_cooldowns

\* C27: the single-image path makes the content check before the cooldown
\* check, so a request rejected for content leaves the cooldown map as it
\* was; the batch path makes the cooldown check before the content checks,
\* so the cooldown is charged even when every prompt is then rejected.
C27_CheckOrder ==
  [][\A e \in EventIds :
       /\ ChecksRun(e) => C27_Step(e)
       /\ C27_Kept(e)]_vars

\* A finished batch of a charged sender, every prompt of which was
\* rejected.
C27_Witness ==
  \E e \in EventIds :
    /\ InBatch(ev[e]) /\ ev[e].pc = "done"
    /\ ev[e].trace[2].why = "write"
    /\ ev[e].sender \in DOMAIN user_cooldowns
    /\ Cardinality(Idx(ev[e].trace, "sensitive")) = 2
    /\ \A k \in Idx(ev[e].trace, "sensitive") : ~ev[e].trace[k].ok
    /\ Idx(ev[e].trace, "generate") = {}

\* --------------------------------------------- claims on the bypass flags
\* The outcome each check has to have for sender u when its own flag has
\* the value given; no other flag occurs.
AccessPasses(u, scope, bypass_whitelist) ==
  /\ IsAdmin(u) \/ ~lockdown
  /\ scope.group =>
       /\ scope.gid # ""
       /\ scope.gid \in whitelist_group_ids
            \/ (IsAdmin(u) /\ bypass_whitelist)

CooldownBypassed(u, bypass_cooldown) == IsAdmin(u) /\ bypass_cooldown

CooldownPasses(u, bypass_cooldown) ==
  \/ CooldownBypassed(u, bypass_cooldown)
  \/ now - CooldownGet(user_cooldowns, u)
       >= cooldown_seconds * TicksPerSecond

SensitivePasses(u, scope, p, bypass_sensitive) ==
  \/ IsAdmin(u) /\ bypass_sensitive
  \/ Matcher(lex, p, ResolvedTier(scope)) = << >>

\* The flag a check of sender u answers to: the configured one for an
\* administrator, any value at all for everybody else.
FlagFor(u, configured, any) == IF IsAdmin(u) THEN configured ELSE any

\* The checks recorded on event e after this step, against every setting
\* bw, bc, bs of the three flags.
C28_Step(e) ==
  LET r == ev'[e]
      tr == r.trace
      u == r.sender
  IN \A bw \in BOOLEAN, bc \in BOOLEAN, bs \in BOOLEAN :
       LET fw == FlagFor(u, admin_bypass_whitelist, bw)
           fc == FlagFor(u, admin_bypass_cooldown, bc)
           fs == FlagFor(u, admin_bypass_sensitive, bs)
       IN /\ \A k \in Idx(tr, "access") :
               tr[k].ok <=> AccessPasses(u, r.scope, fw)
          /\ \A k \in Idx(tr, "sensitive") :
               tr[k].ok <=> SensitivePasses(u, r.scope, tr[k].p, fs)
          /\ Started(e) =>
               /\ \A k \in Idx(tr, "cooldown") :
                    tr[k].ok <=> CooldownPasses(u, fc)
               /\ user_cooldowns' =
                    IF /\ Idx(tr, "cooldown") # {}
                       /\ CooldownPasses(u, fc)
                       /\ ~CooldownBypassed(u, fc)
                    THEN (u :> now) @@ user_cooldowns
                    ELSE user_cooldowns

\* C28: the bypass flags affect administrators only: for a sender who is
\* not an administrator the outcomes of the lockdown, whitelist, cooldown
\* and content checks and the resulting cooldown map are the same under
\* all eight settings of the flags; for an administrator each flag decides
\* its own check only.
C28_FlagsAdminOnly == [][\A e \in EventIds : C28_Step(e)]_vars

\* A sender who is no administrator and was charged before, refused on
\* the content with every bypass flag on.
C28_Witness ==
  \E e \in EventIds :
    /\ ~IsAdmin(ev[e].sender) /\ ev[e].sender \in Users
    /\ admin_bypass_whitelist /\ admin_bypass_cooldown /\ admin_bypass_sensitive
    /\ ev[e].sender \in DOMAIN user_cooldowns
    /\ ev[e].kind \in {"paint", "tool", "auto"}
    /\ \E k \in Idx(ev[e].trace, "sensitive") : ~ev[e].trace[k].ok
    /\ Idx(ev[e].trace, "cooldown") = {}

\* ------------------------------------- claims on the texts of the pairs
\* The step of _auto_paint_from_llm that builds the pairs of a completion.
PairsBuilt(e) ==
  /\ ev[e].pc = "responded"
  /\ ev'[e].kind = "batch"
  /\ ev'[e].trace[1].ok

\* The tags of a completion whose content is a usable prompt, by position.
UsableTags(text) ==
  LET raw == FindAll(text, 1)
  IN SelectSeq([j \in 1..Len(raw) |-> j],
               LAMBDA j : CleanPrompt(raw[j]) # << >>)

\* C29: in the multi-image mode the pair of each prompt carries the trimmed
\* chunk right before that prompt's own tag, also when the completion has
\* tags whose content is empty after stripping.
C29_Step(e) ==
  PairsBuilt(e) =>
    LET text == ev[e].completion
        raw == FindAll(text, 1)
        tags == UsableTags(text)
        chunks == TrimmedChunks(text)
        pairs == ev'[e].pairs
    IN /\ Len(pairs) >= Len(tags)
       /\ \A i \in 1..Len(tags) :
            /\ pairs[i].prompt = CleanPrompt(raw[tags[i]])
            /\ pairs[i].text = chunks[tags[i]]

C29_OwnChunk == [][\A e \in EventIds : C29_Step(e)]_vars

\* The texts of the pairs that carry one, in order.
PairTexts(pairs) ==
  LET sel == SelectSeq(pairs, LAMBDA q : q.text # << >>)
  IN [i \in 1..Len(sel) |-> sel[i].text]

\* C30: in the multi-image mode no narrative text is lost: every non-empty
\* trimmed chunk of the completion is the text of exactly one pair, in the
\* original order.
C30_Step(e) ==
  PairsBuilt(e) =>
    PairTexts(ev'[e].pairs) = NarrativeChunks(ev[e].completion)

C30_NoTextLost == [][\A e \in EventIds : C30_Step(e)]_vars

\* ------------------------------------------- claims on the cooldown map
\* Entries of the cooldown map are never removed and never decrease.
CooldownMapGrows ==
  /\ DOMAIN user_cooldowns \subseteq DOMAIN user_cooldowns'
  /\ \A u \in DOMAIN user_cooldowns : user_cooldowns'[u] >= user_cooldowns[u]

\* The cooldown checks made in this step for a sender without entry: they
\* pass exactly from the cooldown duration on, and passing stores the time.
FirstCheck(e) ==
  LET r == ev'[e]
      u == r.sender
      limit == cooldown_seconds * TicksPerSecond
  IN \A k \in Idx(r.trace, "cooldown") :
       u \notin DOMAIN user_cooldowns =>
         /\ r.trace[k].ok <=> now >= limit
         /\ r.trace[k].ok =>
              /\ u \in DOMAIN user_cooldowns'
              /\ user_cooldowns'[u] = now

\* The same for a bypassed administrator: the check passes at any time and
\* stores nothing.
FirstCheckBypassed(e) ==
  LET r == ev'[e]
  IN \A k \in Idx(r.trace, "cooldown") :
       r.sender \notin DOMAIN user_cooldowns =>
         /\ r.trace[k].ok
         /\ user_cooldowns' = user_cooldowns

\* C33 as stated: a user without entry counts as last accepted at time 0:
\* the first cooldown check of any user at time t passes if and only if
\* t >= the cooldown duration and on passing creates the user's entry with
\* value t; entries are never removed and a stored time never decreases.
C33_AsStated ==
  [][/\ \A e \in EventIds : Started(e) => FirstCheck(e)
     /\ CooldownMapGrows]_vars

\* C33: a user without entry and without cooldown bypass counts as last
\* accepted at time 0: the user's first cooldown check at time t passes if
\* and only if t >= the cooldown duration and on passing creates the
\* user's entry with value t; the check of an administrator with the
\* cooldown bypass passes at any time and creates no entry; entries are
\* never removed and a stored time never decreases.
C33_NoEntryIsZero ==
  [][/\ \A e \in EventIds :
          Started(e) =>
            IF IsAdmin(ev'[e].sender) /\ admin_bypass_cooldown
            THEN FirstCheckBypassed(e)
            ELSE FirstCheck(e)
     /\ CooldownMapGrows]_vars

\* A sender without bypass and without entry refused before the cooldown
\* duration has passed since time 0.
C33_Witness ==
  \E e \in EventIds :
    /\ ~(IsAdmin(ev[e].sender) /\ admin_bypass_cooldown)
    /\ ev[e].sender \in Users \ DOMAIN user_cooldowns
    /\ now < cooldown_seconds * TicksPerSecond
    /\ \E k \in Idx(ev[e].trace, "cooldown") : ~ev[e].trace[k].ok

\* ------------------------------------------------ claims on tier changes
\* The entries a step adds to the trace of event e.
Added(e) ==
  IF ev[e].pc = "idle" THEN ev'[e].trace
  ELSE SubSeq(ev'[e].trace, Len(ev[e].trace) + 1, Len(ev'[e].trace))

\* Every sensitive-word check made in this step is judged under the tier
\* the map gives the scope at this step.
C31_Step(e) ==
  ev'[e].pc # "idle" =>
    LET r == ev'[e]
        new == Added(e)
        tier == ResolvedTier(r.scope)
        byp == IsAdmin(r.sender) /\ admin_bypass_sensitive
    IN \A k \in 1..Len(new) :
         new[k].op = "sensitive" =>
           /\ new[k].why = tier
           /\ new[k].ok <=> (Matcher(lex, new[k].p, tier) = << >> \/ byp)

\* C31: the tier of a group is resolved anew at each sensitive-word check:
\* a successful tier change for a group takes effect for every check made
\* after it, so the prompts of a batch of that group in flight are judged
\* under the tier in force when each of them is checked, those before the
\* change under the old tier and those after it under the new one.
C31_TierPerCheck == [][\A e \in EventIds : C31_Step(e)]_vars

\* A batch of group g1 whose first prompt passed under lite and whose
\* second, the same prompt, was rejected under full after the change.
C31_Witness ==
  \E e \in EventIds :
    /\ InBatch(ev[e]) /\ ev[e].scope = Group("g1")
    /\ "g1" \in DOMAIN group_policies /\ group_policies["g1"] = "full"
    /\ \E j, k \in Idx(ev[e].trace, "sensitive") :
         /\ j < k
         /\ ev[e].trace[j].p = ev[e].trace[k].p
         /\ ev[e].trace[j].why = "lite" /\ ev[e].trace[j].ok
         /\ ev[e].trace[k].why = "full" /\ ~ev[e].trace[k].ok

\* ------------------------------------------- claims on the auto-paint flag
\* What a step may do to an event whose auto-painted flag is set: the flag
\* stays; the trace is only extended, by no access check and no cooldown
\* check, and only by the handler in flight returning from its await; the
\* cooldown map stays as it is; an invocation that returned at the flag
\* changed nothing.
C32_Step(e) ==
  (attrs[e].auto_painted /\ ev'[e].pc # "idle") =>
    LET old == ev[e].trace
        new == ev'[e].trace
    IN /\ attrs'[e].auto_painted
       /\ Len(new) >= Len(old) /\ SubSeq(new, 1, Len(old)) = old
       /\ \A k \in (Len(old) + 1)..Len(new) :
            new[k].op \notin {"access", "cooldown"}
       /\ new # old =>
            /\ ev[e].pc \in {"generating", "sending"}
            /\ ev'[e].kind = ev[e].kind
            /\ ev'[e].pairs = ev[e].pairs
            /\ ev'[e].idx >= ev[e].idx
       /\ user_cooldowns' = user_cooldowns
       /\ attrs'[e].skipped # attrs[e].skipped =>
            (ev' = ev /\ now' = now /\ accepted' = accepted)

\* C32: auto-paint runs at most once per event: the handler that starts a
\* batch or a single generation for an event has set the event's
\* auto-painted flag, and every later invocation of the handler on that
\* event returns without evaluating a check, writing the cooldown map,
\* calling the backend or sending a message.
C32_AutoPaintOnce ==
  [][\A e \in EventIds :
       /\ ev'[e].kind \in {"batch", "auto"} => attrs'[e].auto_painted
       /\ C32_Step(e)]_vars

\* The handler invoked again, and returned, while the batch of the event
\* waits for the backend.
C32_Witness ==
  \E e \in EventIds :
    /\ attrs[e].auto_painted /\ attrs[e].skipped
    /\ ev[e].kind = "batch" /\ ev[e].pc = "generating"
    /\ ev[e].sender \in DOMAIN user_cooldowns

=============================================================================
